---- MODULE Spec2Model ----
(***************************************************************************)
(* A model of the attribute encoding of watchful/attributes.py: the        *)
(* compact numeral encoder (base64, base64str), the span encoder           *)
(* (contig_spans) and the dictionary-building writer (writer, write).      *)
(*                                                                         *)
(* A Python str produced by the encoder is a sequence of character codes   *)
(* (ord values), so that "1C" is <<49, 67>>.  A Python int is unbounded;   *)
(* the integers handed to base64 are kept as two limbs [hi, lo] of value   *)
(* hi * 64^5 + lo, which covers numerals of up to ten symbols.             *)
(***************************************************************************)
EXTENDS Integers, Sequences, FiniteSets, TLC

\* ------------------------------------------------------------------ bounds

\* The longest list of integers handed to base64str.
MaxLen == 4
\* The longest list of spans handed to contig_spans.
MaxSpans == 3
\* The largest offset of a span handed to contig_spans.
MaxPos == 5

\* --------------------------------------------------------------- constants

BASE == 64
COMPRESSED_LEN == 8

\* chr(48 + i) for i in 0..63: "0123456789:;<=>?@A..Z[\]^_`a..o".
NUMERALS == [i \in 0..(BASE - 1) |-> 48 + i]

\* chr(35 + i) for i in 0..7: "#$%&'()*".
COMPRESSED == [i \in 0..(COMPRESSED_LEN - 1) |-> 35 + i]

\* The separator of ",".join(ret).
COMMA == <<44>>

\* ------------------------------------------------------- unbounded integers

\* One limb holds five base-64 digits.
LIMB == BASE * BASE * BASE * BASE * BASE

\* The Python int n, for -LIMB < n < LIMB.
PyInt(n) == [hi |-> 0, lo |-> n]

\* The Python int hi * 64^5 + lo, 0 <= lo < 64^5.
Wide(hi, lo) == [hi |-> hi, lo |-> lo]

\* num == 0
IsZero(num) == num.hi = 0 /\ num.lo = 0

\* num > 0
IsPos(num) == num.hi > 0 \/ (num.hi = 0 /\ num.lo > 0)

\* num % BASE, for num > 0
ModBase(num) == num.lo % BASE

\* num // BASE, for num > 0
FloorDivBase(num) ==
    [hi |-> num.hi \div BASE,
     lo |-> (num.hi % BASE) * (LIMB \div BASE) + (num.lo \div BASE)]

\* ret[::-1]
RECURSIVE Reverse(_)
Reverse(s) ==
    IF s = <<>> THEN <<>> ELSE Append(Reverse(Tail(s)), Head(s))

\* "".join(buf)
RECURSIVE Concat(_)
Concat(buf) ==
    IF buf = <<>> THEN <<>> ELSE Head(buf) \o Concat(Tail(buf))

\* sep.join(ret)
RECURSIVE Join(_, _)
Join(sep, ret) ==
    IF ret = <<>> THEN <<>>
    ELSE IF Len(ret) = 1 THEN Head(ret)
    ELSE Head(ret) \o sep \o Join(sep, Tail(ret))

\* ------------------------------------------------------------------ base64

\* The while loop of base64: digits are appended least significant first.
RECURSIVE base64_loop(_, _)
base64_loop(num, ret) ==
    IF IsPos(num)
    THEN base64_loop(FloorDivBase(num), Append(ret, NUMERALS[ModBase(num)]))
    ELSE ret

\* base64 without the final reversal.
base64_digit_first(num) ==
    IF IsZero(num) THEN <<NUMERALS[0]>> ELSE base64_loop(num, <<>>)

base64(num) ==
    IF IsZero(num) THEN <<NUMERALS[0]>> ELSE Reverse(base64_loop(num, <<>>))

\* --------------------------------------------------------------- base64str

\* flush_buf without the compression limit: a long run gets the last prefix.
flush_buf_no_limit(ret, buf) ==
    IF Len(buf) = 1 THEN Append(ret, buf[1])
    ELSE IF Len(buf) > 1
    THEN LET compress_idx == Len(buf[1]) - 1
             idx == IF compress_idx < COMPRESSED_LEN THEN compress_idx
                    ELSE COMPRESSED_LEN - 1
         IN  Append(ret, <<COMPRESSED[idx]>> \o Concat(buf))
    ELSE ret

\* flush_buf that also compresses a buffer of one code.
flush_buf_compress_single(ret, buf) ==
    IF Len(buf) >= 1
    THEN LET compress_idx == Len(buf[1]) - 1
         IN  IF compress_idx < COMPRESSED_LEN
             THEN Append(ret, <<COMPRESSED[compress_idx]>> \o Concat(buf))
             ELSE ret \o buf
    ELSE ret

\* flush_buf: the tokens ret holds once buf is flushed.
flush_buf(ret, buf) ==
    IF Len(buf) = 1 THEN Append(ret, buf[1])
    ELSE IF Len(buf) > 1
    THEN LET compress_idx == Len(buf[1]) - 1
         IN  IF compress_idx < COMPRESSED_LEN
             THEN Append(ret, <<COMPRESSED[compress_idx]>> \o Concat(buf))
             ELSE ret \o buf
    ELSE ret

\* The for loop of base64str with push_buf: rb is [ret, buf].
RECURSIVE base64str_loop(_, _)
base64str_loop(list_of_integers, rb) ==
    IF list_of_integers = <<>> THEN rb
    ELSE LET s == base64(Head(list_of_integers))
         IN  IF Len(rb.buf) = 0 \/ Len(s) = Len(rb.buf[1])
             THEN base64str_loop(Tail(list_of_integers),
                                 [ret |-> rb.ret, buf |-> Append(rb.buf, s)])
             ELSE base64str_loop(Tail(list_of_integers),
                                 [ret |-> flush_buf(rb.ret, rb.buf),
                                  buf |-> <<s>>])

\* The tokens of base64str before they are joined.
base64str_tokens(list_of_integers) ==
    LET rb == base64str_loop(list_of_integers, [ret |-> <<>>, buf |-> <<>>])
    IN  flush_buf(rb.ret, rb.buf)

base64str(list_of_integers) ==
    Join(COMMA, base64str_tokens(list_of_integers))

\* ------------------------------------------------- the documented decoding

\* The value of a numeral, most significant digit first.
RECURSIVE numeral_value(_, _)
numeral_value(s, acc) ==
    IF s = <<>> THEN acc
    ELSE numeral_value(
             Tail(s),
             [hi |-> acc.hi * BASE + (acc.lo \div (LIMB \div BASE)),
              lo |-> (acc.lo % (LIMB \div BASE)) * BASE + (Head(s) - 48)])

\* s.split(","), with "" holding no token.
RECURSIVE split_comma(_, _, _)
split_comma(s, cur, toks) ==
    IF s = <<>> THEN Append(toks, cur)
    ELSE IF <<Head(s)>> = COMMA
    THEN split_comma(Tail(s), <<>>, Append(toks, cur))
    ELSE split_comma(Tail(s), Append(cur, Head(s)), toks)

\* s cut into chunks of `width` characters.
RECURSIVE chunks(_, _)
chunks(s, width) ==
    IF s = <<>> THEN <<>>
    ELSE IF Len(s) <= width THEN <<s>>
    ELSE <<SubSeq(s, 1, width)>> \o chunks(SubSeq(s, width + 1, Len(s)), width)

\* The numerals one token stands for.
decode_token(tok) ==
    IF tok # <<>> /\ tok[1] >= 35 /\ tok[1] <= 42
    THEN chunks(Tail(tok), tok[1] - 34)
    ELSE <<tok>>

RECURSIVE decode_tokens(_)
decode_tokens(toks) ==
    IF toks = <<>> THEN <<>>
    ELSE decode_token(Head(toks)) \o decode_tokens(Tail(toks))

\* The list of integers an encoded string stands for.
decode_base64str(s) ==
    IF s = <<>> THEN <<>>
    ELSE LET nums == decode_tokens(split_comma(s, <<>>, <<>>))
         IN  [i \in 1..Len(nums) |-> numeral_value(nums[i], PyInt(0))]

\* ------------------------------------------------------------ contig_spans

\* contig_spans with offset = a: gaps are taken from the previous start.
contig_spans_from_start(spans) ==
    [i \in 1..(2 * Len(spans)) |->
        LET k == (i + 1) \div 2
            offset == IF k = 1 THEN 0 ELSE spans[k - 1][1]
        IN  IF i % 2 = 1 THEN spans[k][1] - offset
            ELSE spans[k][2] - spans[k][1]]

\* The for loop of contig_spans: contig and offset after the spans.
RECURSIVE contig_spans_loop(_, _, _)
contig_spans_loop(spans, contig, offset) ==
    IF spans = <<>> THEN contig
    ELSE LET a == Head(spans)[1]
             b == Head(spans)[2]
         IN  contig_spans_loop(Tail(spans),
                               contig \o <<a - offset, b - a>>, b)

contig_spans(spans) == contig_spans_loop(spans, <<>>, 0)

\* ----------------------------------------------------------- Python values

\* An attribute value: None, a str, a number (an int n), or an object that
\* is neither (a list of n items).
PyNone == [t |-> "none", s |-> "", n |-> 0]
PyStr(s) == [t |-> "str", s |-> s, n |-> 0]
PyNum(n) == [t |-> "num", s |-> "", n |-> n]
PyObj(n) == [t |-> "obj", s |-> "", n |-> n]

\* bool(val): None, "", 0 and the empty list are falsy.
truthy(val) ==
    CASE val.t = "none" -> FALSE
      [] val.t = "str" -> val.s # ""
      [] val.t = "num" -> val.n # 0
      [] val.t = "obj" -> val.n # 0

DIGITS == <<"0", "1", "2", "3", "4", "5", "6", "7", "8", "9">>

\* str(n) of an int: its decimal numeral.
RECURSIVE str(_)
str(n) ==
    IF n < 0 THEN "-" \o str(0 - n)
    ELSE IF n < 10 THEN DIGITS[n + 1]
    ELSE str(n \div 10) \o DIGITS[(n % 10) + 1]

\* A dict is the sequence of its items [k, v] in insertion order.
dict_has(d, key) == \E i \in 1..Len(d) : d[i].k = key

dict_get(d, key) == d[CHOOSE i \in 1..Len(d) : d[i].k = key].v

dict_set(d, key, val) ==
    IF dict_has(d, key)
    THEN [i \in 1..Len(d) |-> IF d[i].k = key THEN [k |-> key, v |-> val] ELSE d[i]]
    ELSE Append(d, [k |-> key, v |-> val])

\* A list of small ints as base64str takes it.
PyInts(xs) == [i \in 1..Len(xs) |-> PyInt(xs[i])]

\* ------------------------------------------------------------------ writer

\* len(d): ids that start at 0.
next_id_from_zero(d) == Len(d)

\* len(d) + 1: the id a dictionary gives its next key.
next_id(d) == Len(d) + 1

\* The test without `not val in values[attr]`: a value is staged every time.
is_new_value_always(values_attr, val) == truthy(val)

\* val and not val in values[attr]
is_new_value(values_attr, val) == truthy(val) /\ ~dict_has(values_attr, val)

\* One turn of `for val in vals` in the gathering loop; st holds the writer's
\* attrs and values, this call's new_attrs, new_values and cell, and the
\* exception raised so far.
gather_val(st, attr, val0) ==
    LET val == IF val0.t = "num" THEN PyStr(str(val0.n)) ELSE val0
    IN  IF val0.t # "num" /\ truthy(val0) /\ val0.t # "str"
        \* The message "..." + val is built first: str + non-str raises.
        THEN [st EXCEPT !.exc = "TypeError"]
        ELSE IF is_new_value(dict_get(st.values, attr), val)
        THEN LET values_attr == dict_get(st.values, attr)
                 staged == IF dict_has(st.new_values, attr)
                           THEN dict_get(st.new_values, attr) ELSE <<>>
             IN  [st EXCEPT
                    !.values = dict_set(st.values, attr,
                                  dict_set(values_attr, val, next_id(values_attr))),
                    !.new_values = dict_set(st.new_values, attr, Append(staged, val))]
        ELSE st

RECURSIVE gather_vals(_, _, _)
gather_vals(st, attr, vals) ==
    IF st.exc # "none" \/ vals = <<>> THEN st
    ELSE gather_vals(gather_val(st, attr, Head(vals)), attr, Tail(vals))

\* One turn of the first `for attr, vals in attr_vals.items()`.
gather_attr(st, attr, vals) ==
    LET st1 == IF ~dict_has(st.attrs, attr)
               THEN [st EXCEPT
                       !.attrs = dict_set(st.attrs, attr, next_id(st.attrs)),
                       !.values = dict_set(st.values, attr, <<>>),
                       !.new_attrs = Append(st.new_attrs, attr)]
               ELSE st
    IN  gather_vals(st1, attr, vals)

RECURSIVE gather(_, _)
gather(st, attr_vals) ==
    IF st.exc # "none" \/ attr_vals = <<>> THEN st
    ELSE gather(gather_attr(st, Head(attr_vals).k, Head(attr_vals).v),
                Tail(attr_vals))

\* values[attr][val] if val else 0, with the val of the cell as it was given.
value_id(values_attr, val) ==
    IF truthy(val)
    THEN IF dict_has(values_attr, val)
         THEN [exc |-> "none", id |-> dict_get(values_attr, val)]
         ELSE [exc |-> "KeyError", id |-> 0]
    ELSE [exc |-> "none", id |-> 0]

\* The second `for attr, vals in attr_vals.items()`: [exc, span_val].
RECURSIVE build_span_val(_, _, _, _)
build_span_val(st, span, attr_vals, span_val) ==
    IF attr_vals = <<>> THEN [exc |-> "none", span_val |-> span_val]
    ELSE LET attr == Head(attr_vals).k
             vals == Head(attr_vals).v
             ids == [i \in 1..Len(vals) |->
                        value_id(dict_get(st.values, attr), vals[i])]
         IN  IF Len(span) # Len(vals)
             THEN [exc |-> "AssertionError", span_val |-> span_val]
             ELSE IF \E i \in 1..Len(ids) : ids[i].exc # "none"
             THEN [exc |-> "KeyError", span_val |-> span_val]
             ELSE build_span_val(
                      st, span, Tail(attr_vals),
                      span_val \o <<dict_get(st.attrs, attr),
                                    base64str([i \in 1..Len(ids) |-> PyInt(ids[i].id)])>>)

\* One turn of `for span_data in cell_data`.
write_span_data(st, span_data) ==
    LET span == span_data[1]
        attr_vals == span_data[2]
        st1 == gather(st, attr_vals)
        named == IF Len(span_data) = 3 THEN <<span_data[3]>> ELSE <<>>
        built == build_span_val(st1, span, attr_vals, named)
    IN  IF st1.exc # "none" THEN st1
        ELSE IF built.exc # "none" THEN [st1 EXCEPT !.exc = built.exc]
        ELSE [st1 EXCEPT
                !.cell = st1.cell \o <<base64str(PyInts(contig_spans(span))),
                                       built.span_val>>]

RECURSIVE write_loop(_, _)
write_loop(st, cell_data) ==
    IF st.exc # "none" \/ cell_data = <<>> THEN st
    ELSE write_loop(write_span_data(st, Head(cell_data)), Tail(cell_data))

\* write_jsonl(cell) made before the "@" and "$" records.
write_lines_cell_first(st) ==
    <<[kind |-> "cell", obj |-> st.cell]>>
    \o (IF st.new_attrs # <<>>
        THEN <<[kind |-> "@", obj |-> <<"@">> \o st.new_attrs]>>
        ELSE <<>>)
    \o [i \in 1..Len(st.new_values) |->
           [kind |-> "$",
            obj |-> <<"$", st.new_values[i].k>>
                    \o [j \in 1..Len(st.new_values[i].v) |-> st.new_values[i].v[j].s]]]

\* The records write_jsonl appends at the end of a write() that did not raise.
write_lines(st) ==
    (IF st.new_attrs # <<>>
     THEN <<[kind |-> "@", obj |-> <<"@">> \o st.new_attrs]>>
     ELSE <<>>)
    \o [i \in 1..Len(st.new_values) |->
           [kind |-> "$",
            obj |-> <<"$", st.new_values[i].k>>
                    \o [j \in 1..Len(st.new_values[i].v) |-> st.new_values[i].v[j].s]]]
    \o <<[kind |-> "cell", obj |-> st.cell]>>

\* write_jsonl(["@"] + new_attrs) reached before the raise.
write_output_eager(out, st) ==
    IF st.exc = "none" THEN out \o write_lines(st)
    ELSE IF st.new_attrs # <<>>
    THEN Append(out, [kind |-> "@", obj |-> <<"@">> \o st.new_attrs])
    ELSE out

\* The output after a write() that ended in state st: a raise leaves the
\* function before its first write_jsonl.
write_output(out, st) ==
    IF st.exc = "none" THEN out \o write_lines(st) ELSE out

\* The header record written when the writer is made.
header(n_rows, n_cols) ==
    [kind |-> "header",
     obj |-> [version |-> "0.3", rows |-> n_rows, cols |-> n_cols]]

\* ------------------------------------------------------------------ inputs

\* The integers handed to base64 and base64str: numerals of 1, 2, 4, 6, 8,
\* 9 and 10 symbols.
Nums ==
    {PyInt(0), PyInt(55), PyInt(83), PyInt(2291947),
     Wide(BASE - 1, LIMB - 1), Wide(BASE * BASE, 0),
     Wide(BASE * BASE * BASE, 0), Wide(BASE * BASE * BASE, 5),
     Wide(BASE * BASE * BASE * BASE, 0)}

\* The lists of at most n elements of S.
RECURSIVE SeqsUpTo(_, _)
SeqsUpTo(S, n) ==
    IF n = 0 THEN {<<>>}
    ELSE LET shorter == SeqsUpTo(S, n - 1)
         IN  shorter \cup {Append(xs, x) : xs \in shorter, x \in S}

\* The lists of at most n spans in non-decreasing, non-overlapping order
\* that start at or after `from`.
RECURSIVE SortedSpans(_, _)
SortedSpans(n, from) ==
    IF n = 0 THEN {<<>>}
    ELSE {<<>>} \cup
         UNION {UNION {{<<<<a, b>>>> \o rest : rest \in SortedSpans(n - 1, b)}
                       : b \in a..MaxPos}
                : a \in from..MaxPos}

\* The span lists handed to contig_spans: the sorted ones and their reversals.
SpanLists ==
    LET sorted == SortedSpans(MaxSpans, 0)
    IN  sorted \cup {Reverse(spans) : spans \in sorted}

\* The first n spans of the cell of tests/test_attributes.py.
Spans(n) == SubSeq(<<<<1, 2>>, <<2, 3>>, <<3, 4>>>>, 1, n)

Item(attr, vals) == [k |-> attr, v |-> vals]

Vals ==
    {PyNone, PyStr(""), PyStr("1"), PyStr("a"),
     PyNum(0), PyNum(1), PyObj(1), PyObj(0)}

\* The cell of TestWriter.test_writer.
TestCell ==
    <<<<Spans(3), <<Item("key", <<PyStr("1"), PyNum(1), PyNone>>)>>, "an_name">>>>

\* One group of one span with one attribute holding one value.
OneValueCells ==
    {<<<<Spans(1), <<Item(attr, <<val>>)>>>>>> : attr \in {"key", "pos"}, val \in Vals}

StrCells ==
    {<<<<Spans(3), <<Item("key", <<PyStr("1"), PyStr("a"), PyNone>>)>>, "an_name">>>>,
     <<<<Spans(2), <<Item("key", <<PyStr("a"), PyStr("a")>>),
                     Item("pos", <<PyStr("1"), PyStr("a")>>)>>>>>>,
     <<<<Spans(1), <<Item("pos", <<PyStr("b")>>),
                     Item("key", <<PyStr("b")>>)>>, "an_name">>>>}

\* Cells whose number of values differs from the number of spans.
MismatchCells ==
    {<<<<Spans(1), <<Item("key", <<PyStr("a"), PyStr("1")>>)>>>>>>,
     <<<<Spans(2), <<Item("pos", <<PyStr("a")>>)>>, "an_name">>>>}

\* Cells of two groups: a sound first group and a second group that is
\* sound, holds an object, has a value too few, or holds a number; and a
\* first group with a value too few before a sound second group.
TwoGroupCells ==
    {<<<<Spans(1), <<Item("key", <<PyStr("a")>>)>>>>, second>> :
        second \in {<<Spans(2), <<Item("key", <<PyStr("b"), PyStr("a")>>)>>, "an_name">>,
                    <<Spans(1), <<Item("pos", <<PyObj(1)>>)>>>>,
                    <<Spans(2), <<Item("pos", <<PyStr("b")>>)>>>>,
                    <<Spans(1), <<Item("pos", <<PyStr("b")>>),
                                  Item("key", <<PyNum(1)>>)>>>>}}
    \cup {<<<<Spans(2), <<Item("key", <<PyStr("a")>>)>>>>,
            <<Spans(1), <<Item("pos", <<PyStr("a")>>)>>>>>>}

\* The empty cell, and groups without attributes.
EmptyCells ==
    {<<>>, <<<<<<>>, <<>>>>>>, <<<<Spans(1), <<>>, "an_name">>>>}

CellData ==
    {TestCell} \cup OneValueCells \cup StrCells \cup MismatchCells
    \cup TwoGroupCells \cup EmptyCells

\* The numbers of rows and columns a writer is made with.
RowCounts == {1, 2}
ColCounts == {2}

\* The number of write() calls made on a writer.
MaxWrites == 2

\* ------------------------------------------------- offset reconciliation

\* len(ch.encode("utf-8")) of the character with code point ch.
utf8_len(ch) ==
    IF ch < 128 THEN 1 ELSE IF ch < 2048 THEN 2 ELSE IF ch < 65536 THEN 3 ELSE 4

\* The byte offset of character offset n of cell, a str given as the
\* sequence of its code points.
RECURSIVE byte_offset_at(_, _)
byte_offset_at(cell, n) ==
    IF n = 0 THEN 0 ELSE byte_offset_at(cell, n - 1) + utf8_len(cell[n])

\* The dict byte_offsets: its keys are 0..len(cell).
byte_offsets(cell) ==
    [char_offset \in 0..Len(cell) |-> byte_offset_at(cell, char_offset)]

\* An enriched cell as the interpreter holds it: the span lists are objects
\* (lists[r] is the list with reference r), and a context is a tuple of the
\* reference of its span list, its attr_vals and, in name, its name if any.
\* `for i, span in enumerate(spans)`: the list is updated in place.
RECURSIVE adjust_spans(_, _, _)
adjust_spans(offsets, spans, i) ==
    IF i > Len(spans) THEN [exc |-> "none", spans |-> spans]
    ELSE LET start == spans[i][1]
             end == spans[i][2]
         IN  IF start \notin DOMAIN offsets \/ end \notin DOMAIN offsets
             THEN [exc |-> "KeyError", spans |-> spans]
             ELSE adjust_spans(offsets,
                               [spans EXCEPT ![i] = <<offsets[start], offsets[end]>>],
                               i + 1)

\* `for context in enriched_cell`
RECURSIVE adjust_contexts(_, _, _)
adjust_contexts(offsets, enriched_cell, c) ==
    IF c > Len(enriched_cell.contexts)
    THEN [exc |-> "none", enriched_cell |-> enriched_cell]
    ELSE LET ref == enriched_cell.contexts[c].spans
             done == adjust_spans(offsets, enriched_cell.lists[ref], 1)
             next == [enriched_cell EXCEPT !.lists[ref] = done.spans]
         IN  IF done.exc # "none"
             THEN [exc |-> done.exc, enriched_cell |-> next]
             ELSE adjust_contexts(offsets, next, c + 1)

adjust_span_offsets_from_char_to_byte(cell, enriched_cell) ==
    adjust_contexts(byte_offsets(cell), enriched_cell, 1)

\* The spans of context c of an enriched cell.
spans_of(enriched_cell, c) == enriched_cell.lists[enriched_cell.contexts[c].spans]

\* The cell as write() reads it: (spans, attr_vals) or (spans, attr_vals, name).
cell_data_of(enriched_cell) ==
    [c \in 1..Len(enriched_cell.contexts) |->
        <<spans_of(enriched_cell, c), enriched_cell.contexts[c].attr_vals>>
        \o enriched_cell.contexts[c].name]

\* The number of spans of a span list handed to the reconciliation.
MaxAdjSpans == 2

\* Cell texts: "", "ab", "d\u00e9f", "\u20aca" and "\U0001f600".
Texts == {<<>>, <<97, 98>>, <<100, 233, 102>>, <<8364, 97>>, <<128512>>}

\* The span lists of at most MaxAdjSpans spans with 0 <= start <= end <= n.
CharSpanLists(n) ==
    SeqsUpTo({<<start, end>> : start \in 0..n, end \in 0..n} \ 
             {<<start, end>> \in (0..n) \X (0..n) : start > end}, MaxAdjSpans)

\* One value per span.
ValsFor(spans) == [i \in 1..Len(spans) |-> PyStr("a")]

\* The enriched cells of a span list: one context; two contexts with a list
\* each; two contexts that hold the same list object.
EnrichedCells(spans) ==
    {[lists |-> <<spans>>,
      contexts |-> <<[spans |-> 1,
                      attr_vals |-> <<Item("key", ValsFor(spans))>>,
                      name |-> <<>>]>>],
     [lists |-> <<spans, spans>>,
      contexts |-> <<[spans |-> 1,
                      attr_vals |-> <<Item("key", ValsFor(spans))>>,
                      name |-> <<>>],
                     [spans |-> 2, attr_vals |-> <<>>, name |-> <<"EX">>]>>],
     [lists |-> <<spans>>,
      contexts |-> <<[spans |-> 1,
                      attr_vals |-> <<Item("key", ValsFor(spans))>>,
                      name |-> <<>>],
                     [spans |-> 1, attr_vals |-> <<>>, name |-> <<"EX">>]>>]}

AdjInputs ==
    UNION {UNION {{[cell |-> cell, enriched_cell |-> enriched_cell] :
                      enriched_cell \in EnrichedCells(spans)}
                  : spans \in CharSpanLists(Len(cell))}
           : cell \in Texts}

\* ---------------------------------------------------- the enrichment run

\* A cell of a csv.DictReader row: a str (its code points), None for a cell
\* the line lacks, or the list of the cells the line has in excess.
Cell(text) == [t |-> "str", text |-> text]
AbsentCell == [t |-> "none", text |-> <<>>]
UnusedCells == [t |-> "list", text |-> <<>>]

\* dict(zip(fieldnames, line)) from entry i on.
RECURSIVE zip_row(_, _, _, _)
zip_row(fieldnames, line, d, i) ==
    IF i > Len(fieldnames) \/ i > Len(line) THEN d
    ELSE zip_row(fieldnames, line,
                 dict_set(d, PyStr(fieldnames[i]), Cell(line[i])), i + 1)

\* d[key] = restval for the fieldnames from entry i on.
RECURSIVE rest_row(_, _, _)
rest_row(fieldnames, d, i) ==
    IF i > Len(fieldnames) THEN d
    ELSE rest_row(fieldnames, dict_set(d, PyStr(fieldnames[i]), AbsentCell), i + 1)

\* The row csv.DictReader makes of a line that is not blank: the cells in
\* excess go under the key None, the cells that lack are None.
row_dict(fieldnames, line) ==
    LET d == zip_row(fieldnames, line, <<>>, 1)
    IN  IF Len(fieldnames) < Len(line) THEN dict_set(d, PyNone, UnusedCells)
        ELSE IF Len(fieldnames) > Len(line)
        THEN rest_row(fieldnames, d, Len(line) + 1)
        ELSE d

\* The line csv.DictReader reads next after line `cursor`: it skips blank
\* lines; 0 when no line is left.
RECURSIVE next_line(_, _)
next_line(lines, cursor) ==
    IF cursor >= Len(lines) THEN 0
    ELSE IF lines[cursor + 1] = <<>> THEN next_line(lines, cursor + 1)
    ELSE cursor + 1

\* The rows of csv.DictReader over a file, each with the number of its line.
RECURSIVE dict_rows(_, _)
dict_rows(file, cursor) ==
    LET line == next_line(file.lines, cursor)
    IN  IF line = 0 THEN <<>>
        ELSE <<[line |-> line, row |-> row_dict(file.fieldnames, file.lines[line])]>>
             \o dict_rows(file, line)

\* n_rows of the first pass: None, or the number of the last line that
\* enumerate(in_reader, 1) gave, blank lines included.
count_rows(lines) == IF lines = <<>> THEN PyNone ELSE PyNum(Len(lines))

\* ENRICHMENT_ARGS[0] of enrich_row, a function of the user; this one spans
\* the cell as a whole under "len" and its characters one by one under
\* "ascii", where it holds a list for a "?".
atterize_fn(cell) ==
    [lists |-> <<<<<<0, Len(cell)>>>>, [i \in 1..Len(cell) |-> <<i - 1, i>>]>>,
     contexts |->
        <<[spans |-> 1,
           attr_vals |-> <<Item("len", <<PyStr(str(Len(cell)))>>)>>,
           name |-> <<>>],
          [spans |-> 2,
           attr_vals |-> <<Item("ascii",
                                [i \in 1..Len(cell) |->
                                    IF cell[i] = 63 THEN PyObj(1)
                                    ELSE IF cell[i] < 128 THEN PyStr("1")
                                    ELSE PyNone])>>,
           name |-> <<"CHARS">>]>>]

\* The two asserts on a row.
row_assert(row) ==
    IF dict_has(row, PyNone) THEN "AssertionError"
    ELSE IF \E i \in 1..Len(row) : row[i].v.t = "none" THEN "AssertionError"
    ELSE "none"

\* The first exception of a list of results, or "none".
first_exc(results) ==
    IF \E i \in 1..Len(results) : results[i].exc # "none"
    THEN results[CHOOSE i \in 1..Len(results) :
                    /\ results[i].exc # "none"
                    /\ \A j \in 1..(i - 1) : results[j].exc = "none"].exc
    ELSE "none"

\* enrich_row(row): [exc, enriched_row, reader]; the attribute row reader is
\* not used.
enrich_row(row, reader) ==
    IF row_assert(row) # "none"
    THEN [exc |-> row_assert(row), enriched_row |-> <<>>, reader |-> reader]
    ELSE LET cells == [i \in 1..Len(row) |->
                          adjust_span_offsets_from_char_to_byte(
                              row[i].v.text, atterize_fn(row[i].v.text))]
         IN  IF first_exc(cells) # "none"
             THEN [exc |-> first_exc(cells), enriched_row |-> <<>>, reader |-> reader]
             ELSE [exc |-> "none",
                   enriched_row |-> [i \in 1..Len(row) |-> cells[i].enriched_cell],
                   reader |-> reader]

\* The enriched cell enrich_row_with_attribute_data builds of a cell before
\* the offsets are adjusted: one span list, held by a context per attribute
\* and by the context "EX".
attribute_cell(cell, attr_names, attr_row) ==
    LET n == IF Len(attr_names) < Len(attr_row) THEN Len(attr_names)
             ELSE Len(attr_row)
    IN  [lists |-> <<<<<<0, Len(cell)>>>>>>,
         contexts |->
            [j \in 1..n |->
                [spans |-> 1,
                 attr_vals |-> <<Item(attr_names[j], <<PyStr(attr_row[j])>>)>>,
                 name |-> <<>>]]
            \o <<[spans |-> 1, attr_vals |-> <<>>, name |-> <<"EX">>]>>]

\* enrich_row_with_attribute_data(row): [exc, enriched_row, reader], where
\* reader is the number of rows read from the attributes file by the
\* process that makes the call.
enrich_row_with_attribute_data(row, attr_file, reader) ==
    IF row_assert(row) # "none"
    THEN [exc |-> row_assert(row), enriched_row |-> <<>>, reader |-> reader]
    ELSE IF reader >= Len(attr_file.lines)
    THEN [exc |-> "StopIteration", enriched_row |-> <<>>, reader |-> reader]
    ELSE LET attr_row == attr_file.lines[reader + 1]
             cells == [i \in 1..Len(row) |->
                          adjust_span_offsets_from_char_to_byte(
                              row[i].v.text,
                              attribute_cell(row[i].v.text, attr_file.fieldnames,
                                             attr_row))]
         IN  IF first_exc(cells) # "none"
             THEN [exc |-> first_exc(cells), enriched_row |-> <<>>,
                   reader |-> reader + 1]
             ELSE [exc |-> "none",
                   enriched_row |-> [i \in 1..Len(row) |-> cells[i].enriched_cell],
                   reader |-> reader + 1]

\* enrich_row_fn(row) in a process whose attribute row reader is at `reader`.
enrich_row_fn(enrich_fn, row, attr_file, reader) ==
    IF enrich_fn = "enrich_row_with_attribute_data"
    THEN enrich_row_with_attribute_data(row, attr_file, reader)
    ELSE enrich_row(row, reader)

\* enrich_col_fn((col_name, cells)), a function of the user; this one
\* enriches each cell as enrich_row does and raises on a cell that is None.
enrich_col(col) ==
    LET cells == [i \in 1..Len(col) |->
                     IF col[i].t # "str"
                     THEN [exc |-> "TypeError", enriched_cell |-> <<>>]
                     ELSE adjust_span_offsets_from_char_to_byte(
                              col[i].text, atterize_fn(col[i].text))]
    IN  IF first_exc(cells) # "none"
        THEN [exc |-> first_exc(cells), enriched_col |-> <<>>]
        ELSE [exc |-> "none",
              enriched_col |-> [i \in 1..Len(col) |-> cells[i].enriched_cell]]

\* map(lambda row: row[col_name], in_reader): the column of a name.
get_col(file, col_name) ==
    LET rows == dict_rows(file, 0)
    IN  [i \in 1..Len(rows) |-> dict_get(rows[i].row, PyStr(col_name))]

\* list(map(enrich_col_fn, in_reader)): [exc, enriched_cols].
enrich_cols(file) ==
    LET cols == [j \in 1..Len(file.fieldnames) |->
                    enrich_col(get_col(file, file.fieldnames[j]))]
    IN  IF first_exc(cols) # "none"
        THEN [exc |-> first_exc(cols), enriched_cols |-> <<>>]
        ELSE [exc |-> "none",
              enriched_cols |-> [j \in 1..Len(cols) |-> cols[j].enriched_col]]

\* ATTR_WRITER(enriched_cell) on the writer w = [attrs, values, output, calls,
\* passed, exc], for the cell of line `row` and column `col`.
write_call(w, cell_data, row, col) ==
    LET st == write_loop([attrs |-> w.attrs, values |-> w.values,
                          new_attrs |-> <<>>, new_values |-> <<>>,
                          cell |-> <<>>, exc |-> "none"], cell_data)
    IN  [attrs |-> st.attrs,
         values |-> st.values,
         output |-> write_output(w.output, st),
         calls |-> Append(w.calls, [cell_data |-> cell_data, exc |-> st.exc,
                                    at |-> Len(w.output)]),
         passed |-> Append(w.passed, [row |-> row, col |-> col]),
         exc |-> st.exc]

\* `for enriched_cell in enriched_row` from column col on.
RECURSIVE proc_enriched_cells(_, _, _, _)
proc_enriched_cells(w, enriched_row, row, col) ==
    IF w.exc # "none" \/ col > Len(enriched_row) THEN w
    ELSE proc_enriched_cells(
             write_call(w, cell_data_of(enriched_row[col]), row, col),
             enriched_row, row, col + 1)

proc_enriched_row(w, enriched_row, row) ==
    proc_enriched_cells(w, enriched_row, row, 1)

\* proc_enriched_row(__get_row(i)): enriched_col[i] is read column after
\* column, each just before its cell is written.
RECURSIVE proc_transposed_row(_, _, _, _, _)
proc_transposed_row(w, enriched_cols, i, row, col) ==
    IF w.exc # "none" \/ col > Len(enriched_cols) THEN w
    ELSE IF i > Len(enriched_cols[col]) THEN [w EXCEPT !.exc = "IndexError"]
    ELSE proc_transposed_row(
             write_call(w, cell_data_of(enriched_cols[col][i]), row, col),
             enriched_cols, i, row, col + 1)

\* The output closed by a call at the end of the block, which an exception
\* skips.
outfile_after_no_with(pc_after) ==
    IF pc_after = "done" THEN "closed" ELSE "open"

\* The file is closed when control leaves the `with` block, by the end of
\* the run or by an exception.
outfile_after(pc_after) ==
    IF pc_after \in {"done", "failed"} THEN "closed" ELSE "open"

\* One turn of `for enriched_row in map(enrich_row_fn, in_reader)` on the run
\* s = [w, cursor, reader, pc, error]. A StopIteration that enrich_row_fn
\* raises ends the loop as the end of the file does.
row_step(s, file, enrich_fn, attr_file) ==
    LET line == next_line(file.lines, s.cursor)
    IN  IF line = 0 THEN [s EXCEPT !.pc = "done", !.cursor = Len(file.lines)]
        ELSE LET e == enrich_row_fn(enrich_fn,
                                    row_dict(file.fieldnames, file.lines[line]),
                                    attr_file, s.reader)
                 w == proc_enriched_row(s.w, e.enriched_row, line)
             IN  IF e.exc = "StopIteration"
                 THEN [s EXCEPT !.pc = "done", !.cursor = line, !.reader = e.reader]
                 ELSE IF e.exc # "none"
                 THEN [s EXCEPT !.pc = "failed", !.error = e.exc,
                                !.cursor = line, !.reader = e.reader]
                 ELSE IF w.exc # "none"
                 THEN [s EXCEPT !.pc = "failed", !.error = w.exc, !.w = w,
                                !.cursor = line, !.reader = e.reader]
                 ELSE [s EXCEPT !.w = w, !.cursor = line, !.reader = e.reader]

\* The single-process loop run to its end.
RECURSIVE row_loop(_, _, _, _)
row_loop(s, file, enrich_fn, attr_file) ==
    IF s.pc # "rows" THEN s
    ELSE row_loop(row_step(s, file, enrich_fn, attr_file), file, enrich_fn, attr_file)

\* The rows of chunk c when the rows are cut into chunks of chunksize.
chunk_rows(rows, chunksize, c) ==
    SubSeq(rows, (c - 1) * chunksize + 1,
           IF c * chunksize < Len(rows) THEN c * chunksize ELSE Len(rows))

\* The number of chunks.
chunk_count(rows, chunksize) == (Len(rows) + chunksize - 1) \div chunksize

\* list(map(enrich_row_fn, chunk)) in a worker whose reader is at `reader`:
\* [exc, rows, reader]. A StopIteration that enrich_row_fn raises ends the
\* list where it is; any other exception is the result of the whole chunk.
RECURSIVE mapstar(_, _, _, _, _)
mapstar(enrich_fn, chunk, attr_file, reader, enriched) ==
    IF chunk = <<>> THEN [exc |-> "none", rows |-> enriched, reader |-> reader]
    ELSE LET e == enrich_row_fn(enrich_fn, Head(chunk).row, attr_file, reader)
         IN  IF e.exc = "StopIteration"
             THEN [exc |-> "none", rows |-> enriched, reader |-> e.reader]
             ELSE IF e.exc # "none"
             THEN [exc |-> e.exc, rows |-> <<>>, reader |-> e.reader]
             ELSE mapstar(enrich_fn, Tail(chunk), attr_file, e.reader,
                          Append(enriched, e.enriched_row))

\* The task of a worker: with chunksize 1 imap sends the rows one by one and
\* the worker calls enrich_row_fn on the row, else it sends chunks and the
\* worker calls mapstar.
worker_task(enrich_fn, chunk, attr_file, reader, chunksize) ==
    IF chunksize = 1
    THEN LET e == enrich_row_fn(enrich_fn, Head(chunk).row, attr_file, reader)
         IN  [exc |-> e.exc,
              rows |-> IF e.exc = "none" THEN <<e.enriched_row>> ELSE <<>>,
              reader |-> e.reader]
    ELSE mapstar(enrich_fn, chunk, attr_file, reader, <<>>)

\* The processes of the pool: psutil.cpu_count(logical=False).
NumWorkers == 2

\* The dataset files: a header line and the lines after it.
File(fieldnames, lines) == [fieldnames |-> fieldnames, lines |-> lines]

InFiles ==
    {File(<<"a", "b">>, <<>>),
     File(<<"a", "b">>, <<<<<<97, 98>>, <<100, 233, 102>>>>,
                          <<<<8364, 97>>, <<97, 98>>>>>>),
     File(<<"a", "b">>, <<<<<<97, 98>>, <<97, 98>>>>,
                          <<<<97, 98>>>>,
                          <<<<97, 98>>, <<97, 98>>>>>>),
     File(<<"a", "b">>, <<<<<<97, 98>>, <<97, 98>>>>,
                          <<<<97, 98>>, <<97, 98>>, <<97, 98>>>>,
                          <<<<97, 98>>, <<97, 98>>>>>>),
     File(<<"a", "b">>, <<<<<<97, 98>>, <<97, 98>>>>,
                          <<>>,
                          <<<<100, 233, 102>>, <<97, 98>>>>>>),
     File(<<"a", "a">>, <<<<<<97, 98>>, <<100, 233, 102>>>>>>),
     File(<<"a">>, <<<<<<97, 98>>>>, <<<<97>>>>, <<<<98>>>>>>),
     File(<<"a", "b">>, <<<<<<97, 98>>, <<63>>>>,
                          <<<<97, 98>>, <<97, 98>>>>>>),
     File(<<"a">>, <<<<<<97, 98>>>>, <<<<97>>>>, <<<<98>>>>,
                     <<<<97>>, <<98>>>>>>)}

\* The attributes files: as many rows as the longest dataset, and one row.
AttrFiles ==
    {File(<<"x">>, <<<<"p1">>, <<"p2">>, <<"p3">>, <<"p4">>>>),
     File(<<"x">>, <<<<"p1">>>>)}

\* The file that stands for none.
NoFile == File(<<>>, <<>>)

\* The enrichment functions and their order.
EnrichFns == {"enrich_row", "enrich_row_with_attribute_data", "enrich_col"}

order(enrich_fn) == IF enrich_fn = "enrich_col" THEN "col" ELSE "row"

\* The chunk sizes of the multiprocess runs.
RunChunkSizes == {1, 2}

\* ------------------------------------------------------------------- state

VARIABLES
    attrs,      \* writer: attribute name -> id
    values,     \* writer: attribute name -> (value -> id)
    output,     \* the records written to the output, in order
    made,       \* whether writer() has returned the write function
    calls,      \* the write() calls made: [cell_data, exc, at]
    fn,         \* the encoder function under call
    arg,        \* its argument
    result,     \* what it returned
    returned,   \* whether it has returned
    IS_MULTIPROC,           \* the module's multiprocessing flag
    MULTIPROC_CHUNKSIZE,    \* the module's chunk size: None or an int
    flag_calls, \* the calls made to the two setters: [fn, ..., exc]
    in_file,    \* the dataset of the enrichment run
    enrich_fn,  \* its enrichment function
    attr_file,  \* the attributes file of enrich_row_with_attribute_data
    pc,         \* where the run is: "ready", "rows", "cols", "transposed",
                \* "done" or "failed"
    error,      \* the exception that ended the run
    outfile,    \* the output file: "unopened", "open" or "closed"
    cursor,     \* the lines, results or rows the main loop has taken
    attr_row_reader,    \* the attribute rows read in the main process
    pool,       \* the process pool: [taken, busy, readers, results]
    enriched_cols,      \* the enriched columns of a column-wise run
    passed,     \* per write() call of the run, its [row, col]
    proc,       \* the client function under call
    cpc,        \* where it is
    locals,     \* its local variables
    server,     \* the Watchful application it talks to
    requests,   \* the requests sent to the application, in order
    yielded,    \* what the function has returned or yielded, in order
    clock       \* time.time_ns(), in ticks

writerVars == <<attrs, values, output, made, calls>>
encVars == <<fn, arg, result, returned>>
flagVars == <<IS_MULTIPROC, MULTIPROC_CHUNKSIZE, flag_calls>>
runVars == <<in_file, enrich_fn, attr_file, pc, error, outfile, cursor,
             attr_row_reader, pool, enriched_cols, passed>>
clientVars == <<proc, cpc, locals, server, requests, yielded, clock>>
vars == <<attrs, values, output, made, calls, fn, arg, result, returned,
          IS_MULTIPROC, MULTIPROC_CHUNKSIZE, flag_calls,
          in_file, enrich_fn, attr_file, pc, error, outfile, cursor,
          attr_row_reader, pool, enriched_cols, passed,
          proc, cpc, locals, server, requests, yielded, clock>>

WriterInit ==
    /\ attrs = <<>>
    /\ values = <<>>
    /\ output = <<>>
    /\ made = FALSE
    /\ calls = <<>>

EncIdle ==
    /\ fn = "none"
    /\ arg = <<>>
    /\ result = <<>>
    /\ returned = FALSE

\* IS_MULTIPROC = False and MULTIPROC_CHUNKSIZE = None at import.
FlagInit ==
    /\ IS_MULTIPROC = FALSE
    /\ MULTIPROC_CHUNKSIZE = PyNone
    /\ flag_calls = <<>>

\* No pool.
NoPool == [taken |-> 0, busy |-> <<>>, readers |-> <<>>, results |-> <<>>]

\* No enrichment run.
RunIdle ==
    /\ in_file = NoFile
    /\ enrich_fn = "none"
    /\ attr_file = NoFile
    /\ pc = "idle"
    /\ error = "none"
    /\ outfile = "unopened"
    /\ cursor = 0
    /\ attr_row_reader = 0
    /\ pool = NoPool
    /\ enriched_cols = <<>>
    /\ passed = <<>>

\* No client function under call.
ClientIdle ==
    /\ proc = "none"
    /\ cpc = "idle"
    /\ locals = <<>>
    /\ server = <<>>
    /\ requests = <<>>
    /\ yielded = <<>>
    /\ clock = 0

Init == WriterInit /\ EncIdle /\ FlagInit /\ RunIdle /\ ClientIdle

\* writer(output, n_rows, n_cols): the dictionaries are made and the header
\* is written.
writer(n_rows, n_cols) ==
    /\ ~made
    /\ attrs' = <<>>
    /\ values' = <<>>
    /\ output' = Append(output, header(n_rows, n_cols))
    /\ made' = TRUE
    /\ UNCHANGED <<clientVars, calls, fn, arg, result, returned, flagVars, runVars>>

\* write(cell_data)
write(cell_data) ==
    /\ made
    /\ Len(calls) < MaxWrites
    /\ LET st == write_loop([attrs |-> attrs, values |-> values,
                             new_attrs |-> <<>>, new_values |-> <<>>,
                             cell |-> <<>>, exc |-> "none"], cell_data)
       IN  /\ attrs' = st.attrs
           /\ values' = st.values
           /\ output' = write_output(output, st)
           /\ calls' = Append(calls, [cell_data |-> cell_data, exc |-> st.exc,
                                      at |-> Len(output)])
    /\ UNCHANGED <<clientVars, made, fn, arg, result, returned, flagVars, runVars>>

Next ==
    \/ \E n_rows \in RowCounts, n_cols \in ColCounts : writer(n_rows, n_cols)
    \/ \E cell_data \in CellData : write(cell_data)

Spec == Init /\ [][Next]_vars

\* ------------------------------------------------ the encoder, called alone

EncInit ==
    /\ WriterInit
    /\ ClientIdle
    /\ FlagInit
    /\ RunIdle
    /\ result = <<>>
    /\ returned = FALSE
    /\ \/ fn = "base64" /\ arg \in Nums
       \/ fn = "base64str" /\ arg \in SeqsUpTo(Nums, MaxLen)
       \/ fn = "contig_spans" /\ arg \in SpanLists

call_base64 ==
    /\ fn = "base64" /\ ~returned
    /\ result' = base64(arg)
    /\ returned' = TRUE
    /\ UNCHANGED <<clientVars, attrs, values, output, made, calls, fn, arg, flagVars, runVars>>

call_base64str ==
    /\ fn = "base64str" /\ ~returned
    /\ result' = base64str(arg)
    /\ returned' = TRUE
    /\ UNCHANGED <<clientVars, attrs, values, output, made, calls, fn, arg, flagVars, runVars>>

call_contig_spans ==
    /\ fn = "contig_spans" /\ ~returned
    /\ result' = contig_spans(arg)
    /\ returned' = TRUE
    /\ UNCHANGED <<clientVars, attrs, values, output, made, calls, fn, arg, flagVars, runVars>>

EncNext == call_base64 \/ call_base64str \/ call_contig_spans

SpecEnc == EncInit /\ [][EncNext]_vars

\* ------------------------------------- offset reconciliation, called alone

AdjInit ==
    /\ WriterInit
    /\ ClientIdle
    /\ FlagInit
    /\ RunIdle
    /\ fn = "adjust_span_offsets_from_char_to_byte"
    /\ arg \in AdjInputs
    /\ result = <<>>
    /\ returned = FALSE

call_adjust_span_offsets_from_char_to_byte ==
    /\ fn = "adjust_span_offsets_from_char_to_byte" /\ ~returned
    /\ result' = adjust_span_offsets_from_char_to_byte(arg.cell, arg.enriched_cell)
    /\ returned' = TRUE
    /\ UNCHANGED <<clientVars, attrs, values, output, made, calls, fn, arg, flagVars, runVars>>

AdjNext == call_adjust_span_offsets_from_char_to_byte

SpecAdj == AdjInit /\ [][AdjNext]_vars

\* ------------------------------------------- the multiprocessing settings

\* The number of calls made to the two setters.
MaxFlagCalls == 3

\* The sizes handed to set_multiproc_chunksize.
ChunkSizes == {-1, 0, 1, 10, 500}

\* set_multiprocessing without `and not IS_MULTIPROC`: the chunk size goes
\* back to the default whenever the flag is set.
set_multiprocessing_reset(is_multiproc, cur) ==
    IF is_multiproc
    THEN [IS_MULTIPROC |-> TRUE, MULTIPROC_CHUNKSIZE |-> PyNum(500)]
    ELSE [IS_MULTIPROC |-> FALSE, MULTIPROC_CHUNKSIZE |-> PyNone]

\* The two branches of set_multiprocessing on the settings cur.
set_multiprocessing_branch(is_multiproc, cur) ==
    IF is_multiproc /\ ~cur.IS_MULTIPROC
    THEN [IS_MULTIPROC |-> TRUE, MULTIPROC_CHUNKSIZE |-> PyNum(500)]
    ELSE IF ~is_multiproc
    THEN [IS_MULTIPROC |-> FALSE, MULTIPROC_CHUNKSIZE |-> PyNone]
    ELSE cur

\* set_multiprocessing(is_multiproc)
set_multiprocessing(is_multiproc) ==
    /\ Len(flag_calls) < MaxFlagCalls
    /\ LET new == set_multiprocessing_branch(
                      is_multiproc,
                      [IS_MULTIPROC |-> IS_MULTIPROC,
                       MULTIPROC_CHUNKSIZE |-> MULTIPROC_CHUNKSIZE])
       IN  /\ IS_MULTIPROC' = new.IS_MULTIPROC
           /\ MULTIPROC_CHUNKSIZE' = new.MULTIPROC_CHUNKSIZE
    /\ flag_calls' = Append(flag_calls,
                            [fn |-> "set_multiprocessing",
                             is_multiproc |-> is_multiproc,
                             multiproc_chunksize |-> 0, exc |-> "none"])
    /\ UNCHANGED <<clientVars, writerVars, encVars, runVars>>

\* set_multiproc_chunksize without its assert.
set_multiproc_chunksize_unasserted(multiproc_chunksize, cur) ==
    [exc |-> "none",
     MULTIPROC_CHUNKSIZE |-> IF cur.IS_MULTIPROC THEN PyNum(multiproc_chunksize)
                             ELSE cur.MULTIPROC_CHUNKSIZE]

\* set_multiproc_chunksize without `if IS_MULTIPROC`.
set_multiproc_chunksize_always(multiproc_chunksize, cur) ==
    IF multiproc_chunksize >= 1
    THEN [exc |-> "none", MULTIPROC_CHUNKSIZE |-> PyNum(multiproc_chunksize)]
    ELSE [exc |-> "AssertionError", MULTIPROC_CHUNKSIZE |-> cur.MULTIPROC_CHUNKSIZE]

\* The assert and the branch of set_multiproc_chunksize on the settings cur.
set_multiproc_chunksize_branch(multiproc_chunksize, cur) ==
    IF ~(multiproc_chunksize >= 1)
    THEN [exc |-> "AssertionError", MULTIPROC_CHUNKSIZE |-> cur.MULTIPROC_CHUNKSIZE]
    ELSE IF cur.IS_MULTIPROC
    THEN [exc |-> "none", MULTIPROC_CHUNKSIZE |-> PyNum(multiproc_chunksize)]
    ELSE [exc |-> "none", MULTIPROC_CHUNKSIZE |-> cur.MULTIPROC_CHUNKSIZE]

\* set_multiproc_chunksize(multiproc_chunksize)
set_multiproc_chunksize(multiproc_chunksize) ==
    /\ Len(flag_calls) < MaxFlagCalls
    /\ LET new == set_multiproc_chunksize_branch(
                      multiproc_chunksize,
                      [IS_MULTIPROC |-> IS_MULTIPROC,
                       MULTIPROC_CHUNKSIZE |-> MULTIPROC_CHUNKSIZE])
       IN  /\ MULTIPROC_CHUNKSIZE' = new.MULTIPROC_CHUNKSIZE
           /\ flag_calls' = Append(flag_calls,
                                   [fn |-> "set_multiproc_chunksize",
                                    is_multiproc |-> FALSE,
                                    multiproc_chunksize |-> multiproc_chunksize,
                                    exc |-> new.exc])
    /\ UNCHANGED <<clientVars, IS_MULTIPROC, writerVars, encVars, runVars>>

FlagNext ==
    \/ \E is_multiproc \in BOOLEAN : set_multiprocessing(is_multiproc)
    \/ \E multiproc_chunksize \in ChunkSizes :
           set_multiproc_chunksize(multiproc_chunksize)

SpecFlags == Init /\ [][FlagNext]_vars

\* ------------------------------------------ enrich_by_row, enrich_by_col

\* A run starts after the settings were made by the two setters.
RunInit ==
    /\ WriterInit
    /\ ClientIdle
    /\ EncIdle
    /\ \/ FlagInit
       \/ \E chunksize \in RunChunkSizes :
              /\ IS_MULTIPROC = TRUE
              /\ MULTIPROC_CHUNKSIZE = PyNum(chunksize)
              /\ flag_calls =
                     <<[fn |-> "set_multiprocessing", is_multiproc |-> TRUE,
                        multiproc_chunksize |-> 0, exc |-> "none"],
                       [fn |-> "set_multiproc_chunksize", is_multiproc |-> FALSE,
                        multiproc_chunksize |-> chunksize, exc |-> "none"]>>
    /\ in_file \in InFiles
    /\ enrich_fn \in EnrichFns
    /\ attr_file \in (IF enrich_fn = "enrich_row_with_attribute_data"
                      THEN AttrFiles ELSE {NoFile})
    /\ pc = "ready"
    /\ error = "none"
    /\ outfile = "unopened"
    /\ cursor = 0
    /\ attr_row_reader = 0
    /\ pool = NoPool
    /\ enriched_cols = <<>>
    /\ passed = <<>>

\* The writer of the run as write_call takes it.
run_writer ==
    [attrs |-> attrs, values |-> values, output |-> output, calls |-> calls,
     passed |-> passed, exc |-> "none"]

\* Pool(initializer=init_args, initargs=enrichment_args): every worker gets
\* its copy of the enrichment arguments, the attribute row reader included;
\* imap cuts the rows into chunks.
new_pool(rows, chunksize, reader) ==
    [taken |-> 0,
     busy |-> [w \in 1..NumWorkers |-> 0],
     readers |-> [w \in 1..NumWorkers |-> reader],
     results |-> [c \in 1..chunk_count(rows, chunksize) |->
                     [state |-> "pending", exc |-> "none", rows |-> <<>>]]]

\* The first pass over the dataset, the opening of the output and
\* writer(outfile, n_rows, n_cols); then init_args, or the pool.
enrich_by_row_open ==
    /\ pc = "ready" /\ order(enrich_fn) = "row"
    /\ attrs' = <<>>
    /\ values' = <<>>
    /\ output' = <<header(count_rows(in_file.lines), PyNum(Len(in_file.fieldnames)))>>
    /\ made' = TRUE
    /\ outfile' = "open"
    /\ pc' = "rows"
    /\ pool' = IF IS_MULTIPROC
               THEN new_pool(dict_rows(in_file, 0), MULTIPROC_CHUNKSIZE.n,
                             attr_row_reader)
               ELSE NoPool
    /\ UNCHANGED <<clientVars, calls, encVars, flagVars, in_file, enrich_fn, attr_file,
                   error, cursor, attr_row_reader, enriched_cols, passed>>

\* One turn of the single-process loop of enrich_by_row, or its end.
enrich_by_row_next ==
    /\ pc = "rows" /\ ~IS_MULTIPROC
    /\ \E s \in {row_step([w |-> run_writer, cursor |-> cursor,
                          reader |-> attr_row_reader, pc |-> pc, error |-> error],
                         in_file, enrich_fn, attr_file)} :
           /\ attrs' = s.w.attrs
           /\ values' = s.w.values
           /\ output' = s.w.output
           /\ calls' = s.w.calls
           /\ passed' = s.w.passed
           /\ cursor' = s.cursor
           /\ attr_row_reader' = s.reader
           /\ pc' = s.pc
           /\ error' = s.error
           /\ outfile' = outfile_after(s.pc)
    /\ UNCHANGED <<clientVars, made, encVars, flagVars, in_file, enrich_fn, attr_file,
                   pool, enriched_cols>>

\* An idle worker takes the next chunk from the task queue.
pool_take(w) ==
    /\ pc = "rows" /\ IS_MULTIPROC
    /\ pool.busy[w] = 0
    /\ pool.taken < Len(pool.results)
    /\ pool' = [pool EXCEPT !.taken = pool.taken + 1,
                            !.busy[w] = pool.taken + 1]
    /\ UNCHANGED <<clientVars, writerVars, encVars, flagVars, in_file, enrich_fn, attr_file,
                   pc, error, outfile, cursor, attr_row_reader, enriched_cols,
                   passed>>

\* A worker finishes its chunk and puts the result.
pool_finish(w) ==
    /\ pc = "rows" /\ IS_MULTIPROC
    /\ pool.busy[w] # 0
    /\ \E c \in {pool.busy[w]} :
       \E r \in {worker_task(enrich_fn,
                              chunk_rows(dict_rows(in_file, 0), MULTIPROC_CHUNKSIZE.n, c),
                              attr_file, pool.readers[w], MULTIPROC_CHUNKSIZE.n)} :
           pool' = [pool EXCEPT !.busy[w] = 0,
                                !.readers[w] = r.reader,
                                !.results[c] = [state |-> "done", exc |-> r.exc,
                                                rows |-> r.rows]]
    /\ UNCHANGED <<clientVars, writerVars, encVars, flagVars, in_file, enrich_fn, attr_file,
                   pc, error, outfile, cursor, attr_row_reader, enriched_cols,
                   passed>>

\* One turn of `for enriched_row in pool.imap(...)` of enrich_by_row, or its
\* end: imap gives the results in the order of the tasks, so the loop waits
\* for the chunk of row cursor + 1. The exception of a chunk is raised in
\* place of its first row, a StopIteration among them ends the loop, and a
\* chunk whose list ended early is left for the next chunk.
enrich_by_row_imap ==
    /\ pc = "rows" /\ IS_MULTIPROC
    /\ LET rows == dict_rows(in_file, 0)
           chunksize == MULTIPROC_CHUNKSIZE.n
           c == (cursor \div chunksize) + 1
           i == cursor - (c - 1) * chunksize + 1
       IN  IF cursor >= Len(rows)
           THEN /\ pc' = "done"
                /\ UNCHANGED <<attrs, values, output, calls, passed, cursor, error>>
           ELSE /\ pool.results[c].state = "done"
                /\ LET r == pool.results[c]
                   IN  IF r.exc = "StopIteration"
                       THEN /\ pc' = "done"
                            /\ UNCHANGED <<attrs, values, output, calls, passed,
                                           cursor, error>>
                       ELSE IF r.exc # "none"
                       THEN /\ pc' = "failed" /\ error' = r.exc
                            /\ UNCHANGED <<attrs, values, output, calls, passed,
                                           cursor>>
                       ELSE IF i > Len(r.rows)
                       THEN /\ cursor' = IF c * chunksize < Len(rows)
                                         THEN c * chunksize ELSE Len(rows)
                            /\ UNCHANGED <<attrs, values, output, calls, passed,
                                           pc, error>>
                       ELSE \E w \in {proc_enriched_row(run_writer, r.rows[i],
                                                         rows[cursor + 1].line)} :
                                /\ attrs' = w.attrs
                                /\ values' = w.values
                                /\ output' = w.output
                                /\ calls' = w.calls
                                /\ passed' = w.passed
                                /\ cursor' = cursor + 1
                                /\ pc' = IF w.exc # "none" THEN "failed" ELSE pc
                                /\ error' = w.exc
    /\ outfile' = outfile_after(pc')
    /\ UNCHANGED <<clientVars, made, encVars, flagVars, in_file, enrich_fn, attr_file,
                   attr_row_reader, pool, enriched_cols>>

\* The first pass over the dataset, the opening of the output and
\* writer(outfile, n_rows, n_cols) of enrich_by_col.
enrich_by_col_open ==
    /\ pc = "ready" /\ order(enrich_fn) = "col"
    /\ attrs' = <<>>
    /\ values' = <<>>
    /\ output' = <<header(count_rows(in_file.lines), PyNum(Len(in_file.fieldnames)))>>
    /\ made' = TRUE
    /\ outfile' = "open"
    /\ pc' = "cols"
    /\ UNCHANGED <<clientVars, calls, encVars, flagVars, in_file, enrich_fn, attr_file,
                   error, cursor, attr_row_reader, pool, enriched_cols, passed>>

\* list(map(enrich_col_fn, in_reader)), or list(pool.imap(...)): a task of
\* the pool is (col_name, map(lambda ...)), which holds a local function
\* and cannot be pickled to be sent to a worker.
enrich_by_col_map ==
    /\ pc = "cols"
    /\ \E r \in {enrich_cols(in_file)} :
           IF IS_MULTIPROC
           THEN /\ pc' = "failed" /\ error' = "AttributeError"
                /\ enriched_cols' = enriched_cols
           ELSE IF r.exc # "none"
           THEN /\ pc' = "failed" /\ error' = r.exc
                /\ enriched_cols' = enriched_cols
           ELSE /\ pc' = "transposed" /\ error' = error
                /\ enriched_cols' = r.enriched_cols
    /\ outfile' = outfile_after(pc')
    /\ UNCHANGED <<clientVars, writerVars, encVars, flagVars, in_file, enrich_fn, attr_file,
                   cursor, attr_row_reader, pool, passed>>

\* One turn of `for enriched_row in __enriched_cols_to_enriched_rows(...)`,
\* or its end: range(n_rows) raises when n_rows is None.
enrich_by_col_next ==
    /\ pc = "transposed"
    /\ LET n_rows == output[1].obj.rows
           rows == dict_rows(in_file, 0)
           row == IF cursor < Len(rows) THEN rows[cursor + 1].line
                  ELSE Len(in_file.lines) + 1
       IN  IF n_rows.t = "none"
           THEN /\ pc' = "failed" /\ error' = "TypeError"
                /\ UNCHANGED <<attrs, values, output, calls, passed, cursor>>
           ELSE IF cursor = n_rows.n
           THEN /\ pc' = "done"
                /\ UNCHANGED <<attrs, values, output, calls, passed, cursor, error>>
           ELSE \E w \in {proc_transposed_row(run_writer, enriched_cols,
                                               cursor + 1, row, 1)} :
                /\ attrs' = w.attrs
                /\ values' = w.values
                /\ output' = w.output
                /\ calls' = w.calls
                /\ passed' = w.passed
                /\ cursor' = cursor + 1
                /\ pc' = IF w.exc # "none" THEN "failed" ELSE pc
                /\ error' = w.exc
    /\ outfile' = outfile_after(pc')
    /\ UNCHANGED <<clientVars, made, encVars, flagVars, in_file, enrich_fn, attr_file,
                   attr_row_reader, pool, enriched_cols>>

RunNext ==
    \/ enrich_by_row_open
    \/ enrich_by_row_next
    \/ \E w \in 1..NumWorkers : pool_take(w)
    \/ \E w \in 1..NumWorkers : pool_finish(w)
    \/ enrich_by_row_imap
    \/ enrich_by_col_open
    \/ enrich_by_col_map
    \/ enrich_by_col_next

SpecRun == RunInit /\ [][RunNext]_vars

\* ------------------------------------------------ the client: await_summary

\* The last tick of the clock, and the times the application changes its
\* summary.
MaxClock == 7
MaxChanges == 2

\* The ticks a get() takes, and those a time.sleep(0.03) takes.
GetTicks == {0, 1}
SleepTicks == {1, 3}

\* unchanged_timeout, in ticks.
Timeouts == {0, 2}

\* The summaries of the application: n stands for their content, pred and
\* halt for what pred and halt_fn return for them.
Summaries == [n : {0, 1}, pred : BOOLEAN, halt : BOOLEAN]

\* end: float("inf"), or a time.
Inf == [inf |-> TRUE, t |-> 0]
Time(t) == [inf |-> FALSE, t |-> t]

\* time.time_ns() < end
Before(now, end) == end.inf \/ now < end.t

\* if prev_summary == summary: end = time.time_ns() + unchanged_timeout
await_summary_end(prev_summary, summary, end, now, unchanged_timeout) ==
    IF prev_summary = <<summary>> THEN Time(now + unchanged_timeout) ELSE end

AwaitInit ==
    /\ WriterInit /\ EncIdle /\ FlagInit /\ RunIdle
    /\ proc = "await_summary"
    /\ cpc = "test"
    /\ \E unchanged_timeout \in Timeouts :
           locals = [unchanged_timeout |-> unchanged_timeout,
                     prev_summary |-> <<>>, end |-> Inf, summary |-> <<>>,
                     same |-> 0, stale_from |-> 0]
    /\ \E summary \in Summaries : server = [summary |-> summary, changes |-> 0]
    /\ requests = <<>>
    /\ yielded = <<>>
    /\ clock = 0

\* while time.time_ns() < end, and the raise after the loop.
await_summary_test ==
    /\ proc = "await_summary" /\ cpc = "test"
    /\ IF Before(clock, locals.end)
       THEN cpc' = "get" /\ yielded' = yielded
       ELSE cpc' = "raised" /\ yielded' = Append(yielded, <<"Exception">>)
    /\ UNCHANGED <<writerVars, encVars, flagVars, runVars, proc, locals, server,
                   requests, clock>>

\* summary = get() and the body of the loop down to prev_summary = summary.
\* same and stale_from record for how many polls and since when the polled
\* summary has been the same.
await_summary_get ==
    /\ proc = "await_summary" /\ cpc = "get"
    /\ \E ticks \in GetTicks :
       \E summary \in {server.summary} :
           /\ clock + ticks <= MaxClock
           /\ clock' = clock + ticks
           /\ requests' = Append(requests, [verb |-> "nop"])
           /\ IF summary.halt
              THEN /\ cpc' = "returned"
                   /\ yielded' = Append(yielded, <<>>)
                   /\ locals' = [locals EXCEPT !.summary = <<summary>>]
              ELSE IF summary.pred
              THEN /\ cpc' = "returned"
                   /\ yielded' = Append(yielded, <<summary>>)
                   /\ locals' = [locals EXCEPT !.summary = <<summary>>]
              ELSE /\ cpc' = "sleep"
                   /\ yielded' = yielded
                   /\ locals' =
                          [locals EXCEPT
                              !.summary = <<summary>>,
                              !.end = await_summary_end(
                                          locals.prev_summary, summary, locals.end,
                                          clock', locals.unchanged_timeout),
                              !.prev_summary = <<summary>>,
                              !.same = IF locals.prev_summary = <<summary>>
                                       THEN locals.same + 1 ELSE 1,
                              !.stale_from = IF locals.prev_summary = <<summary>>
                                             THEN locals.stale_from ELSE clock']
    /\ UNCHANGED <<writerVars, encVars, flagVars, runVars, proc, server>>

\* time.sleep(0.03)
await_summary_sleep ==
    /\ proc = "await_summary" /\ cpc = "sleep"
    /\ \E ticks \in SleepTicks :
           /\ clock + ticks <= MaxClock
           /\ clock' = clock + ticks
    /\ cpc' = "test"
    /\ UNCHANGED <<writerVars, encVars, flagVars, runVars, proc, locals, server,
                   requests, yielded>>

\* The application changes its summary.
summary_changes ==
    /\ proc = "await_summary" /\ cpc \in {"test", "get", "sleep"}
    /\ server.changes < MaxChanges
    /\ \E summary \in Summaries \ {server.summary} :
           server' = [summary |-> summary, changes |-> server.changes + 1]
    /\ UNCHANGED <<writerVars, encVars, flagVars, runVars, proc, cpc, locals,
                   requests, yielded, clock>>

AwaitNext ==
    \/ await_summary_test
    \/ await_summary_get
    \/ await_summary_sleep
    \/ summary_changes

SpecAwait == AwaitInit /\ [][AwaitNext]_vars

\* --------------------------------------------------------- the client: dump

\* The most candidates of the application, and the most of one page.
MaxCands == 5
MaxPage == 2

\* The candidates of the application, in hint API order.
Candidates(n) == [k \in 1..n |-> <<"cand", k>>]

\* The answer to api("dump", offset=offset): the size candidates from the
\* offset on, or those that are left.
dump_page(cands, offset, size) ==
    SubSeq(cands, offset + 1,
           IF offset + size < Len(cands) THEN offset + size ELSE Len(cands))

\* The offset counted in pages.
offset_in_pages(offset, chunk) == offset + 1

\* offset += len(chunk)
offset_after(offset, chunk) == offset + Len(chunk)

DumpInit ==
    /\ WriterInit /\ EncIdle /\ FlagInit /\ RunIdle
    /\ proc = "dump"
    /\ cpc = "created"
    /\ locals = [n_cands |-> 0, offset |-> 0, chunk |-> <<>>, i |-> 0]
    /\ \E n \in 0..MaxCands : server = [candidates |-> Candidates(n)]
    /\ requests = <<>>
    /\ yielded = <<>>
    /\ clock = 0

\* The first next(): n_cands = get()["n_candidates"], offset = 0, chunk = [].
dump_get ==
    /\ proc = "dump" /\ cpc = "created"
    /\ requests' = Append(requests, [verb |-> "nop", offset |-> 0, received |-> 0])
    /\ locals' = [n_cands |-> Len(server.candidates), offset |-> 0,
                  chunk |-> <<>>, i |-> 0]
    /\ cpc' = "while"
    /\ UNCHANGED <<writerVars, encVars, flagVars, runVars, proc, server, yielded,
                   clock>>

\* while offset < n_cands: summary = _dump(offset), chunk, offset, i = 0; or
\* the end of the generator.
dump_request ==
    /\ proc = "dump" /\ cpc = "while"
    /\ IF locals.offset < locals.n_cands
       THEN \E size \in 1..MaxPage :
            \E chunk \in {dump_page(server.candidates, locals.offset, size)} :
                /\ requests' = Append(requests,
                                      [verb |-> "dump", offset |-> locals.offset,
                                       received |-> Len(chunk)])
                /\ locals' = [locals EXCEPT
                                 !.chunk = chunk,
                                 !.offset = offset_after(locals.offset, chunk),
                                 !.i = 0]
                /\ cpc' = "chunk"
       ELSE /\ cpc' = "done"
            /\ UNCHANGED <<requests, locals>>
    /\ UNCHANGED <<writerVars, encVars, flagVars, runVars, proc, server, yielded,
                   clock>>

\* while i < len(chunk): yield chunk[i]
dump_yield ==
    /\ proc = "dump" /\ cpc = "chunk"
    /\ IF locals.i < Len(locals.chunk)
       THEN /\ yielded' = Append(yielded, locals.chunk[locals.i + 1])
            /\ cpc' = "yield"
       ELSE /\ yielded' = yielded
            /\ cpc' = "while"
    /\ UNCHANGED <<writerVars, encVars, flagVars, runVars, proc, locals, server,
                   requests, clock>>

\* The caller's next(): i += 1
dump_next ==
    /\ proc = "dump" /\ cpc = "yield"
    /\ locals' = [locals EXCEPT !.i = locals.i + 1]
    /\ cpc' = "chunk"
    /\ UNCHANGED <<writerVars, encVars, flagVars, runVars, proc, server, requests,
                   yielded, clock>>

DumpNext ==
    \/ dump_get
    \/ dump_request
    \/ dump_yield
    \/ dump_next

\* The caller goes on pulling.
SpecDump == DumpInit /\ [][DumpNext]_vars /\ WF_vars(DumpNext)

\* ---------------------------------------------------- the client: query_all

\* The largest max_pages.
MaxQueryPages == 3

\* The summary of page `page` of a query: n candidates, each with its fields.
QueryPage(page, n, query_end) ==
    [candidates |-> [k \in 1..n |-> [fields |-> <<"fields", page, k>>]],
     query_end |-> query_end]

\* The results of the queries: the pages 0, 1, ... of each, the last with
\* query_end set.
QueryResults ==
    {<<QueryPage(0, 0, TRUE)>>,
     <<QueryPage(0, 2, TRUE)>>,
     <<QueryPage(0, 2, FALSE), QueryPage(1, 1, TRUE)>>,
     <<QueryPage(0, 1, FALSE), QueryPage(1, 0, FALSE), QueryPage(2, 1, TRUE)>>,
     <<QueryPage(0, 1, FALSE), QueryPage(1, 2, TRUE), QueryPage(2, 1, TRUE)>>,
     <<QueryPage(0, 1, FALSE), QueryPage(1, 1, FALSE), QueryPage(2, 1, FALSE),
       QueryPage(3, 1, TRUE)>>}

\* The loop left at query_end only.
query_all_break_at_end(summary, max_pages, page) == summary.query_end

\* if summary["query_end"] or max_pages and page == max_pages
query_all_break(summary, max_pages, page) ==
    summary.query_end \/ (max_pages # 0 /\ page = max_pages)

QueryAllInit ==
    /\ WriterInit /\ EncIdle /\ FlagInit /\ RunIdle
    /\ proc = "query_all"
    /\ cpc = "created"
    /\ \E max_pages \in 0..MaxQueryPages :
           locals = [q |-> "q", max_pages |-> max_pages, page |-> 0,
                     summary |-> QueryPage(0, 0, FALSE), j |-> 0,
                     error |-> "none"]
    /\ \E pages \in QueryResults : server = [pages |-> pages]
    /\ requests = <<>>
    /\ yielded = <<>>
    /\ clock = 0

\* summary = query(q, page): the summary of the page; or None when the
\* query of the application is no longer q, and then summary["candidates"]
\* raises; or the time-out of await_summary.
query_all_query ==
    /\ proc = "query_all" /\ cpc \in {"created", "while"}
    /\ requests' = Append(requests, [verb |-> "query", query |-> locals.q,
                                     page |-> locals.page])
    /\ \/ /\ locals' = [locals EXCEPT !.summary = server.pages[locals.page + 1],
                                      !.j = 0]
          /\ cpc' = "for"
       \/ \E raised \in {"TypeError", "Exception"} :
              /\ locals' = [locals EXCEPT !.error = raised]
              /\ cpc' = "raised"
    /\ UNCHANGED <<writerVars, encVars, flagVars, runVars, proc, server, yielded,
                   clock>>

\* for fields in [...]: yield fields; after the last, page += 1 and the
\* break.
query_all_yield ==
    /\ proc = "query_all" /\ cpc = "for"
    /\ IF locals.j < Len(locals.summary.candidates)
       THEN /\ yielded' = Append(yielded,
                                 locals.summary.candidates[locals.j + 1].fields)
            /\ locals' = [locals EXCEPT !.j = locals.j + 1]
            /\ cpc' = "yield"
       ELSE /\ yielded' = yielded
            /\ locals' = [locals EXCEPT !.page = locals.page + 1]
            /\ cpc' = IF query_all_break(locals.summary, locals.max_pages,
                                         locals.page + 1)
                      THEN "done" ELSE "while"
    /\ UNCHANGED <<writerVars, encVars, flagVars, runVars, proc, server, requests,
                   clock>>

\* The caller's next().
query_all_next ==
    /\ proc = "query_all" /\ cpc = "yield"
    /\ cpc' = "for"
    /\ UNCHANGED <<writerVars, encVars, flagVars, runVars, proc, locals, server,
                   requests, yielded, clock>>

QueryAllNext ==
    \/ query_all_query
    \/ query_all_yield
    \/ query_all_next

SpecQueryAll == QueryAllInit /\ [][QueryAllNext]_vars

\* ---------------------------------------------- the enrichment CLI: main

\* What the summary holds as the active project and the opened datasets:
\* "none" and <<>> when there is none.
ProjectIds == {"p1", "p2", "none"}
DatasetIds == {<<>>, <<"d1">>, <<"d2">>}

\* client.get_project_id(summary), client.get_dataset_id(summary): the id, or
\* an exception when there is none.
get_project_id(summary) ==
    IF summary.project_id # "none" THEN [exc |-> "none", id |-> summary.project_id]
    ELSE [exc |-> "Exception", id |-> ""]

get_dataset_id(summary) ==
    IF Len(summary.datasets) = 0 THEN [exc |-> "Exception", id |-> ""]
    ELSE [exc |-> "none", id |-> summary.datasets[1]]

\* The check of the project alone.
main_check_project(project_id, dataset_id, current_project_id, current_dataset_id) ==
    IF project_id # current_project_id THEN "exit" ELSE "ingest"

\* The two comparisons before the ingestion, the ids read.
main_check(project_id, dataset_id, current_project_id, current_dataset_id) ==
    IF project_id # current_project_id THEN "exit"
    ELSE IF dataset_id # current_dataset_id THEN "exit"
    ELSE "ingest"

MainInit ==
    /\ WriterInit /\ EncIdle /\ FlagInit /\ RunIdle
    /\ proc = "main"
    /\ cpc = "start"
    /\ \E is_local \in BOOLEAN :
           locals = [is_local |-> is_local, project_id |-> "", dataset_id |-> "",
                     current_project_id |-> "", current_dataset_id |-> "",
                     status |-> 0, error |-> "none"]
    /\ \E project_id \in ProjectIds, datasets \in DatasetIds :
           server = [project_id |-> project_id, datasets |-> datasets,
                     changes |-> 0]
    /\ requests = <<>>
    /\ yielded = <<>>
    /\ clock = 0

\* summary = client.get(), project_id and dataset_id.
main_get ==
    /\ proc = "main" /\ cpc = "start"
    /\ requests' = Append(requests, [verb |-> "nop", id |-> ""])
    /\ LET p == get_project_id(server)
           ds == get_dataset_id(server)
       IN  IF p.exc # "none" \/ ds.exc # "none"
           THEN /\ cpc' = "raised"
                /\ locals' = [locals EXCEPT !.error = "Exception"]
           ELSE /\ cpc' = "enrich"
                /\ locals' = [locals EXCEPT !.project_id = p.id,
                                            !.dataset_id = ds.id]
    /\ UNCHANGED <<writerVars, encVars, flagVars, runVars, proc, server, yielded,
                   clock>>

\* The export of the dataset of a remote application, the enrichment and the
\* removal of the exported file: done, or left with sys.exit(1).
main_enrich ==
    /\ proc = "main" /\ cpc = "enrich"
    /\ requests' = IF locals.is_local THEN requests
                   ELSE Append(requests, [verb |-> "export", id |-> ""])
    /\ \/ cpc' = "check" /\ locals' = locals
       \/ cpc' = "exited" /\ locals' = [locals EXCEPT !.status = 1]
    /\ UNCHANGED <<writerVars, encVars, flagVars, runVars, proc, server, yielded,
                   clock>>

\* summary = client.get() and the comparisons with the ids read before.
main_compare ==
    /\ proc = "main" /\ cpc = "check"
    /\ requests' = Append(requests, [verb |-> "nop", id |-> ""])
    /\ LET p == get_project_id(server)
           ds == get_dataset_id(server)
       IN  IF p.exc # "none"
           THEN /\ cpc' = "raised"
                /\ locals' = [locals EXCEPT !.error = "Exception"]
           ELSE IF locals.project_id # p.id
           THEN /\ cpc' = "exited"
                /\ locals' = [locals EXCEPT !.current_project_id = p.id,
                                            !.status = 1]
           ELSE IF ds.exc # "none"
           THEN /\ cpc' = "raised"
                /\ locals' = [locals EXCEPT !.current_project_id = p.id,
                                            !.error = "Exception"]
           ELSE /\ cpc' = IF main_check(locals.project_id, locals.dataset_id,
                                        p.id, ds.id) = "exit"
                          THEN "exited" ELSE "ingest"
                /\ locals' = [locals EXCEPT
                                 !.current_project_id = p.id,
                                 !.current_dataset_id = ds.id,
                                 !.status = IF main_check(locals.project_id,
                                                          locals.dataset_id,
                                                          p.id, ds.id) = "exit"
                                            THEN 1 ELSE 0]
    /\ UNCHANGED <<writerVars, encVars, flagVars, runVars, proc, server, yielded,
                   clock>>

\* client.load_attributes(dataset_id, ...) after the copy of the file, which
\* may fail, or client.upload_attributes(dataset_id, ...).
main_ingest ==
    /\ proc = "main" /\ cpc = "ingest"
    /\ \/ /\ requests' = Append(requests,
                                [verb |-> IF locals.is_local THEN "attributes"
                                          ELSE "PUT attributes",
                                 id |-> locals.dataset_id])
          /\ cpc' = "done"
          /\ locals' = locals
       \/ /\ locals.is_local
          /\ requests' = requests
          /\ cpc' = "exited"
          /\ locals' = [locals EXCEPT !.status = 1]
    /\ UNCHANGED <<writerVars, encVars, flagVars, runVars, proc, server, yielded,
                   clock>>

\* Another project is made active or another dataset opened in the
\* application.
application_changes ==
    /\ proc = "main" /\ cpc \in {"enrich", "check", "ingest"}
    /\ server.changes < MaxChanges
    /\ \E project_id \in ProjectIds, datasets \in DatasetIds :
           /\ <<project_id, datasets>> # <<server.project_id, server.datasets>>
           /\ server' = [project_id |-> project_id, datasets |-> datasets,
                         changes |-> server.changes + 1]
    /\ UNCHANGED <<writerVars, encVars, flagVars, runVars, proc, cpc, locals,
                   requests, yielded, clock>>

MainNext ==
    \/ main_get
    \/ main_enrich
    \/ main_compare
    \/ main_ingest
    \/ application_changes

SpecMain == MainInit /\ [][MainNext]_vars

\* ----------------------------------------------- client2: Client.query

\* The summaries get_summary() gives: the current query of the application
\* and whether it is completed.
QuerySummaries == [query : {"q", "other"}, query_completed : BOOLEAN]

\* if summary.query_completed and summary.query != query: return summary
Client_query_returns(summary, query) ==
    summary.query_completed /\ summary.query # query

ClientQueryInit ==
    /\ WriterInit /\ EncIdle /\ FlagInit /\ RunIdle
    /\ proc = "Client.query"
    /\ cpc = "post"
    /\ \E timeout \in Timeouts :
           locals = [query |-> "q", page |-> 0, timeout |-> timeout,
                     end |-> Inf, summary |-> <<>>, error |-> "none"]
    /\ \E summary \in QuerySummaries : server = [summary |-> summary, changes |-> 0]
    /\ requests = <<>>
    /\ yielded = <<>>
    /\ clock = 0

\* The post of the query, and end = time.time_ns() + timeout.
Client_query_post ==
    /\ proc = "Client.query" /\ cpc = "post"
    /\ requests' = Append(requests, [verb |-> "query", query |-> locals.query,
                                     page |-> locals.page])
    /\ locals' = [locals EXCEPT !.end = Time(clock + locals.timeout)]
    /\ cpc' = "test"
    /\ UNCHANGED <<writerVars, encVars, flagVars, runVars, proc, server, yielded,
                   clock>>

\* while time.time_ns() < end, and the raise after the loop.
Client_query_test ==
    /\ proc = "Client.query" /\ cpc = "test"
    /\ IF Before(clock, locals.end)
       THEN cpc' = "get" /\ locals' = locals
       ELSE cpc' = "raised" /\ locals' = [locals EXCEPT !.error = "TimeoutError"]
    /\ UNCHANGED <<writerVars, encVars, flagVars, runVars, proc, server, requests,
                   yielded, clock>>

\* summary = self.get_summary() and the return.
Client_query_get ==
    /\ proc = "Client.query" /\ cpc = "get"
    /\ \E ticks \in GetTicks :
           /\ clock + ticks <= MaxClock
           /\ clock' = clock + ticks
    /\ requests' = Append(requests, [verb |-> "nop", query |-> "", page |-> 0])
    /\ locals' = [locals EXCEPT !.summary = <<server.summary>>]
    /\ IF Client_query_returns(server.summary, locals.query)
       THEN cpc' = "returned" /\ yielded' = Append(yielded, server.summary)
       ELSE cpc' = "sleep" /\ yielded' = yielded
    /\ UNCHANGED <<writerVars, encVars, flagVars, runVars, proc, server>>

\* time.sleep(0.1)
Client_query_sleep ==
    /\ proc = "Client.query" /\ cpc = "sleep"
    /\ \E ticks \in SleepTicks :
           /\ clock + ticks <= MaxClock
           /\ clock' = clock + ticks
    /\ cpc' = "test"
    /\ UNCHANGED <<writerVars, encVars, flagVars, runVars, proc, locals, server,
                   requests, yielded>>

\* The application goes on with its query, or is given another.
query_summary_changes ==
    /\ proc = "Client.query" /\ cpc \in {"test", "get", "sleep"}
    /\ server.changes < MaxChanges
    /\ \E summary \in QuerySummaries \ {server.summary} :
           server' = [summary |-> summary, changes |-> server.changes + 1]
    /\ UNCHANGED <<writerVars, encVars, flagVars, runVars, proc, cpc, locals,
                   requests, yielded, clock>>

ClientQueryNext ==
    \/ Client_query_post
    \/ Client_query_test
    \/ Client_query_get
    \/ Client_query_sleep
    \/ query_summary_changes

SpecClientQuery == ClientQueryInit /\ [][ClientQueryNext]_vars

\* ------------------------------------------------------------------ claims

\* C1: decoding base64str(xs) by the documented rule (split on ","; a token
\* whose first character is in 35..42 is cut into chunks of ord(prefix) - 34
\* characters, any other token is one value) gives back xs, for the empty
\* list and for lists that mix code lengths too.
C1_RoundTrip ==
    (fn = "base64str" /\ returned) => decode_base64str(result) = arg

\* A list with a run of two nine-symbol codes followed by a short code.
C1_Witness ==
    /\ fn = "base64str" /\ returned
    /\ arg = <<Wide(BASE * BASE * BASE, 0), Wide(BASE * BASE * BASE, 5), PyInt(55)>>
    /\ Len(result) = 21
    /\ decode_base64str(result) = arg

\* C2: for n < 64^6, base64(n) is the base-64 numeral of n, most significant
\* digit first, over chr(48 + d), without a leading "0" unless n = 0;
\* base64(0) = "0", base64(55) = "g"; read back as a number it gives n.
C2_Numeral ==
    (fn = "base64" /\ returned /\ arg.hi < BASE) =>
        /\ Len(result) >= 1
        /\ \A i \in 1..Len(result) : result[i] \in 48..(48 + BASE - 1)
        /\ Len(result) > 1 => result[1] # 48
        /\ arg = PyInt(0) => result = <<48>>
        /\ arg = PyInt(55) => result = <<103>>
        /\ numeral_value(result, PyInt(0)) = arg

\* base64(64^6 - 1) = "oooooo".
C2_Witness ==
    /\ fn = "base64" /\ returned
    /\ arg = Wide(BASE - 1, LIMB - 1)
    /\ result = <<111, 111, 111, 111, 111, 111>>

\* The string C3 expects for xs: code i opens a token when it starts a run of
\* codes of one length, a run of two or more codes of at most 8 symbols is
\* one token behind its prefix, and every other code is a token of its own.
C3_Expected(xs) ==
    LET n == Len(xs)
        code(i) == base64(xs[i])
        starts(i) == i = 1 \/ Len(code(i)) # Len(code(i - 1))
        ends(i) == i = n \/ Len(code(i)) # Len(code(i + 1))
        packed(i) == ~(starts(i) /\ ends(i)) /\ Len(code(i)) <= COMPRESSED_LEN
        piece(i) ==
            (IF packed(i) /\ starts(i) THEN <<35 + Len(code(i)) - 1>> ELSE <<>>)
            \o code(i)
            \o (IF i < n /\ (ends(i) \/ ~packed(i)) THEN <<44>> ELSE <<>>)
    IN  Concat([i \in 1..n |-> piece(i)])

\* C3: base64str emits one token per maximal run of codes of one length: a
\* run of one code bare, a run of two or more codes of L+1 <= 8 symbols as
\* chr(35+L) and the codes, a run of longer codes as bare tokens, joined by
\* ","; [83,55,83,2291947] gives "1C,g,1C,8_S[", [83,83,83] gives "$1C1C1C",
\* and no compressed token holds a single value.
C3_Tokens ==
    (fn = "base64str" /\ returned) =>
        /\ result = C3_Expected(arg)
        /\ arg = <<PyInt(83), PyInt(55), PyInt(83), PyInt(2291947)>> =>
               result = <<49, 67, 44, 103, 44, 49, 67, 44, 56, 95, 83, 91>>
        /\ arg = <<PyInt(83), PyInt(83), PyInt(83)>> =>
               result = <<36, 49, 67, 49, 67, 49, 67>>
        /\ result # <<>> =>
               \A tok \in {split_comma(result, <<>>, <<>>)[i] :
                              i \in 1..Len(split_comma(result, <<>>, <<>>))} :
                   tok[1] \in 35..42 => Len(tok) - 1 >= 2 * (tok[1] - 34)

\* The list of the test, encoded without compression.
C3_Witness ==
    /\ fn = "base64str" /\ returned
    /\ arg = <<PyInt(83), PyInt(55), PyInt(83), PyInt(2291947)>>
    /\ result = <<49, 67, 44, 103, 44, 49, 67, 44, 56, 95, 83, 91>>

\* Spans in non-decreasing, non-overlapping order.
C4_Ordered(spans) ==
    \A k \in 1..Len(spans) :
        /\ spans[k][1] <= spans[k][2]
        /\ k > 1 => spans[k - 1][2] <= spans[k][1]

\* The sum of the first i elements of xs.
RECURSIVE C4_RunningSum(_, _)
C4_RunningSum(xs, i) ==
    IF i = 0 THEN 0 ELSE C4_RunningSum(xs, i - 1) + xs[i]

\* C4: contig_spans(spans) has 2 * len(spans) elements: for each span, start
\* minus the previous end (0 before the first span), then end minus start;
\* for ordered spans every element is >= 0 and running sums give the spans
\* back; [(0,1),(2,3),(4,5)] gives [0,1,1,1,1,1].
C4_ContigSpans ==
    (fn = "contig_spans" /\ returned) =>
        /\ Len(result) = 2 * Len(arg)
        /\ \A k \in 1..Len(arg) :
               /\ result[2 * k - 1] =
                      arg[k][1] - (IF k = 1 THEN 0 ELSE arg[k - 1][2])
               /\ result[2 * k] = arg[k][2] - arg[k][1]
        /\ C4_Ordered(arg) =>
               /\ \A i \in 1..Len(result) : result[i] >= 0
               /\ \A k \in 1..Len(arg) :
                      /\ C4_RunningSum(result, 2 * k - 1) = arg[k][1]
                      /\ C4_RunningSum(result, 2 * k) = arg[k][2]
        /\ arg = <<<<0, 1>>, <<2, 3>>, <<4, 5>>>> => result = <<0, 1, 1, 1, 1, 1>>

\* The spans of the test.
C4_Witness ==
    /\ fn = "contig_spans" /\ returned
    /\ arg = <<<<0, 1>>, <<2, 3>>, <<4, 5>>>>
    /\ result = <<0, 1, 1, 1, 1, 1>>

\* ------------------------------------------------- reading the output back

\* The names of the "@" records before position p, in stream order: a reader
\* numbers them from 1.
RECURSIVE ReaderAttrs(_)
ReaderAttrs(p) ==
    IF p <= 1 THEN <<>>
    ELSE ReaderAttrs(p - 1)
         \o (IF output[p - 1].kind = "@" THEN Tail(output[p - 1].obj) ELSE <<>>)

\* The values of the "$" records of attr before position p, in stream order.
RECURSIVE ReaderVals(_, _)
ReaderVals(p, attr) ==
    IF p <= 1 THEN <<>>
    ELSE ReaderVals(p - 1, attr)
         \o (IF output[p - 1].kind = "$" /\ output[p - 1].obj[2] = attr
             THEN SubSeq(output[p - 1].obj, 3, Len(output[p - 1].obj))
             ELSE <<>>)

\* The (attribute id, value codes) pairs of a group vector; a vector of odd
\* length starts with the group's name.
VecItems(vec) ==
    [j \in 1..(Len(vec) \div 2) |->
        [id |-> vec[(Len(vec) % 2) + 2 * j - 1],
         codes |-> vec[(Len(vec) % 2) + 2 * j]]]

\* The value ids a string of value codes stands for.
ValueIds(codes) ==
    LET nums == decode_base64str(codes)
    IN  [i \in 1..Len(nums) |-> nums[i].lo]

NoDup(xs) == \A i, j \in 1..Len(xs) : xs[i] = xs[j] => i = j

RECURSIVE Dedupe(_)
Dedupe(xs) ==
    IF xs = <<>> THEN <<>>
    ELSE LET front == Dedupe(SubSeq(xs, 1, Len(xs) - 1))
             last == xs[Len(xs)]
         IN  IF \E i \in 1..Len(front) : front[i] = last THEN front
             ELSE Append(front, last)

\* The position in the output where the records of call i end.
CallEnd(i) == IF i < Len(calls) THEN calls[i + 1].at ELSE Len(output)

\* The (attr, vals) items of a cell, group after group.
RECURSIVE CellItems(_)
CellItems(cell_data) ==
    IF cell_data = <<>> THEN <<>>
    ELSE Head(cell_data)[2] \o CellItems(Tail(cell_data))

\* The items of the calls made, call after call.
RECURSIVE CallItems(_)
CallItems(i) ==
    IF i = 0 THEN <<>> ELSE CallItems(i - 1) \o CellItems(calls[i].cell_data)

\* The dictionary key of a value: a number goes by its decimal string.
KeyOf(val) == IF val.t = "num" THEN PyStr(str(val.n)) ELSE val

\* The keys the values of attr in the items get, in order.
RECURSIVE KeysOf(_, _)
KeysOf(items, attr) ==
    IF items = <<>> THEN <<>>
    ELSE LET here == IF Head(items).k = attr
                     THEN LET vs == Head(items).v
                              keep == {i \in 1..Len(vs) : truthy(KeyOf(vs[i]))}
                          IN  [i \in 1..Len(vs) |-> IF i \in keep THEN <<KeyOf(vs[i])>> ELSE <<>>]
                     ELSE <<>>
         IN  Concat(here) \o KeysOf(Tail(items), attr)

\* A cell whose values are all None, numbers or strings.
AllowedValues(cell_data) ==
    \A g \in 1..Len(cell_data) : \A j \in 1..Len(cell_data[g][2]) :
        \A k \in 1..Len(cell_data[g][2][j].v) :
            cell_data[g][2][j].v[k].t \in {"none", "num", "str"}

\* A cell whose attributes all hold one value per span.
LengthsMatch(cell_data) ==
    \A g \in 1..Len(cell_data) : \A j \in 1..Len(cell_data[g][2]) :
        Len(cell_data[g][2][j].v) = Len(cell_data[g][1])

\* C5: numeric values are stringified: a number v gets the dictionary id of
\* the string str(v); a writer made with 2 rows and 2 columns that writes the
\* cell of the test emits the header, ["@","key"], ["$","key","1"] and
\* ["#110101", ["an_name", 1, "#110"]].
C5_TestWriter ==
    LET expected ==
            <<header(2, 2),
              [kind |-> "@", obj |-> <<"@", "key">>],
              [kind |-> "$", obj |-> <<"$", "key", "1">>],
              [kind |-> "cell",
               obj |-> <<<<35, 49, 49, 48, 49, 48, 49>>,
                         <<"an_name", 1, <<35, 49, 49, 48>>>>>>]>>
    IN  (/\ Len(calls) = 1
         /\ calls[1].cell_data = TestCell
         /\ output[1].obj.rows = 2 /\ output[1].obj.cols = 2) =>
            /\ calls[1].exc = "none"
            /\ Len(output) = 4
            /\ \A i \in 1..4 :
                   /\ output[i].kind = expected[i].kind
                   /\ output[i].obj = expected[i].obj

\* The attribute names and, per attribute, the value keys are numbered 1..N
\* in insertion order; when no call raised, that is the order of first sight
\* in the cells written.
C6_Ids ==
    /\ \A i \in 1..Len(attrs) : attrs[i].v = i
    /\ NoDup([i \in 1..Len(attrs) |-> attrs[i].k])
    /\ Len(values) = Len(attrs)
    /\ \A i \in 1..Len(values) :
           /\ values[i].k = attrs[i].k
           /\ \A m \in 1..Len(values[i].v) : values[i].v[m].v = m
           /\ NoDup([m \in 1..Len(values[i].v) |-> values[i].v[m].k])
    /\ (\A c \in 1..Len(calls) : calls[c].exc = "none") =>
           LET items == CallItems(Len(calls))
           IN  /\ [i \in 1..Len(attrs) |-> attrs[i].k]
                      = Dedupe([i \in 1..Len(items) |-> items[i].k])
               /\ \A i \in 1..Len(values) :
                      [m \in 1..Len(values[i].v) |-> values[i].v[m].k]
                          = Dedupe(KeysOf(items, values[i].k))

\* No step changes or removes an id that has been assigned.
C6_Stable ==
    /\ Len(attrs') >= Len(attrs)
    /\ \A i \in 1..Len(attrs) :
           /\ attrs'[i] = attrs[i]
           /\ values'[i].k = values[i].k
           /\ Len(values'[i].v) >= Len(values[i].v)
           /\ \A m \in 1..Len(values[i].v) : values'[i].v[m] = values[i].v[m]

\* C6: after any sequence of write() calls the attribute ids are 1..N in
\* order of first sight and so are, per attribute, its value ids; an id once
\* assigned never changes and is never given to another name or value.
C6_StableIds == [](made => C6_Ids) /\ [][made => C6_Stable]_vars

\* Two calls that left two attributes, one of them with two values.
C6_Witness ==
    /\ Len(calls) = 2
    /\ Len(attrs) = 2
    /\ \E i \in 1..Len(values) : Len(values[i].v) = 2
    /\ C6_Ids

\* C7: every attribute id and every non-zero value id of a cell record was
\* introduced by an "@" or a "$" record earlier in the stream, and a reader
\* that numbers the names of the "@" records and, per attribute, the values
\* of its "$" records from 1 gets the ids the writer used.
C7_Announced ==
    \A p \in 1..Len(output) :
        output[p].kind = "cell" =>
            \A g \in 1..(Len(output[p].obj) \div 2) :
                LET items == VecItems(output[p].obj[2 * g])
                    names == ReaderAttrs(p)
                IN  \A j \in 1..Len(items) :
                        /\ items[j].id \in 1..Len(names)
                        /\ dict_get(attrs, names[items[j].id]) = items[j].id
                        /\ LET attr == names[items[j].id]
                               vals == ReaderVals(p, attr)
                               ids == ValueIds(items[j].codes)
                           IN  \A k \in 1..Len(ids) :
                                   ids[k] # 0 =>
                                       /\ ids[k] \in 1..Len(vals)
                                       /\ dict_get(dict_get(values, attr),
                                                   PyStr(vals[ids[k]])) = ids[k]

\* No name is announced twice by the "@" records, and no value of one
\* attribute twice by its "$" records.
C8_Once ==
    /\ NoDup(ReaderAttrs(Len(output) + 1))
    /\ \A i \in 1..Len(attrs) : NoDup(ReaderVals(Len(output) + 1, attrs[i].k))

\* A step announces no name and no value the dictionaries already held, and
\* the cell record it writes encodes such a name or value with the id held.
C8_Step ==
    \A p \in (Len(output) + 1)..Len(output') :
        LET rec == output'[p]
        IN  /\ rec.kind = "@" =>
                   \A n \in 2..Len(rec.obj) : ~dict_has(attrs, rec.obj[n])
            /\ rec.kind = "$" =>
                   \A n \in 3..Len(rec.obj) :
                       ~(/\ dict_has(values, rec.obj[2])
                         /\ dict_has(dict_get(values, rec.obj[2]), PyStr(rec.obj[n])))
            /\ rec.kind = "cell" =>
                   LET cell_data == calls'[Len(calls')].cell_data
                   IN  \A g \in 1..Len(cell_data) :
                           LET items == VecItems(rec.obj[2 * g])
                           IN  \A j \in 1..Len(cell_data[g][2]) :
                                   LET attr == cell_data[g][2][j].k
                                       vals == cell_data[g][2][j].v
                                       ids == ValueIds(items[j].codes)
                                   IN  dict_has(attrs, attr) =>
                                           /\ items[j].id = dict_get(attrs, attr)
                                           /\ \A k \in 1..Len(vals) :
                                                  dict_has(dict_get(values, attr), vals[k]) =>
                                                      ids[k] = dict_get(dict_get(values, attr), vals[k])

C9_NoneOrEmpty(val) == val.t = "none" \/ (val.t = "str" /\ val.s = "")

\* C9: for values that are None, numbers or strings, write() gives no id and
\* no "$" entry exactly to None and the empty value and encodes exactly those
\* as 0; any other value is announced once and encoded as its non-zero id, so
\* every value a call announces in a "$" record is referenced by its id in
\* that call's cell record.
C9_ZeroIffEmpty ==
    \A c \in 1..Len(calls) :
        LET cell_data == calls[c].cell_data
        IN  (AllowedValues(cell_data) /\ LengthsMatch(cell_data)) =>
                /\ calls[c].exc = "none"
                /\ LET rec == output[CallEnd(c)]
                   IN  /\ \A g \in 1..Len(cell_data) :
                              LET items == VecItems(rec.obj[2 * g])
                              IN  \A j \in 1..Len(cell_data[g][2]) :
                                      LET attr == cell_data[g][2][j].k
                                          vals == cell_data[g][2][j].v
                                          ids == ValueIds(items[j].codes)
                                      IN  \A k \in 1..Len(vals) :
                                              /\ C9_NoneOrEmpty(vals[k]) <=> ids[k] = 0
                                              /\ C9_NoneOrEmpty(vals[k]) <=>
                                                     ~dict_has(dict_get(values, attr), KeyOf(vals[k]))
                                              /\ ~C9_NoneOrEmpty(vals[k]) =>
                                                     ids[k] = dict_get(dict_get(values, attr), KeyOf(vals[k]))
                       /\ \A p \in (calls[c].at + 1)..CallEnd(c) :
                              output[p].kind = "$" =>
                                  \A n \in 3..Len(output[p].obj) :
                                      \E g \in 1..Len(cell_data) :
                                          \E j \in 1..Len(cell_data[g][2]) :
                                              /\ cell_data[g][2][j].k = output[p].obj[2]
                                              /\ \E k \in 1..Len(cell_data[g][2][j].v) :
                                                     ValueIds(VecItems(rec.obj[2 * g])[j].codes)[k]
                                                         = dict_get(dict_get(values, output[p].obj[2]),
                                                                    PyStr(output[p].obj[n]))

\* A cell with a non-empty value that is neither a string nor a number, or
\* with an attribute whose number of values is not the number of spans.
C10_Faulty(cell_data) ==
    \E g \in 1..Len(cell_data) : \E j \in 1..Len(cell_data[g][2]) :
        \/ Len(cell_data[g][2][j].v) # Len(cell_data[g][1])
        \/ \E k \in 1..Len(cell_data[g][2][j].v) :
               /\ cell_data[g][2][j].v[k].t = "obj"
               /\ truthy(cell_data[g][2][j].v[k])

\* C10: a write() whose cell holds such a value or such an attribute, in
\* whichever group, raises and appends nothing to the output: no "@" record,
\* no "$" record and no cell record.
C10_FaultWritesNothing ==
    [][(/\ Len(calls') = Len(calls) + 1
        /\ C10_Faulty(calls'[Len(calls')].cell_data)) =>
           /\ calls'[Len(calls')].exc # "none"
           /\ output' = output]_vars

\* A call that raised on a value too few in its second group, after its
\* first group had put a new attribute and value into the dictionaries.
C10_Witness ==
    /\ Len(calls) = 1
    /\ Len(calls[1].cell_data) = 2
    /\ calls[1].exc = "AssertionError"
    /\ Len(attrs) = 2
    /\ Len(output) = 1

\* The names of the items of a cell, group after group.
CellNames(cell_data) ==
    LET items == CellItems(cell_data)
    IN  [i \in 1..Len(items) |-> items[i].k]

\* The value keys attr holds in a values dictionary, in id order.
KeysHeld(vs, attr) ==
    IF dict_has(vs, attr)
    THEN LET d == dict_get(vs, attr) IN [m \in 1..Len(d) |-> d[m].k.s]
    ELSE <<>>

\* The header is the first record and the only header; the records of a call
\* that raised are none, those of a call that returned are at most one "@"
\* record, then "$" records of distinct attributes, then one cell record,
\* and no record of the three is empty.
C11_Form ==
    /\ ~made => output = <<>>
    /\ made =>
        /\ Len(output) >= 1
        /\ output[1].kind = "header"
        /\ output[1].obj.version = "0.3"
        /\ \A p \in 2..Len(output) : output[p].kind # "header"
        /\ calls # <<>> => calls[1].at = 1
        /\ calls = <<>> => Len(output) = 1
        /\ \A c \in 1..Len(calls) :
               LET first == calls[c].at + 1
                   last == CallEnd(c)
               IN  IF calls[c].exc # "none" THEN last = calls[c].at
                   ELSE /\ last >= first
                        /\ output[last].kind = "cell"
                        /\ \A p \in first..(last - 1) :
                               /\ output[p].kind \in {"@", "$"}
                               /\ output[p].kind = "@" =>
                                      p = first /\ Len(output[p].obj) >= 2
                               /\ output[p].kind = "$" =>
                                      /\ Len(output[p].obj) >= 3
                                      /\ \A q \in first..(last - 1) :
                                             (output[q].kind = "$"
                                              /\ output[q].obj[2] = output[p].obj[2])
                                                 => q = p

\* A write() that returned appended the names of its cell that the attribute
\* dictionary did not hold, in one "@" record, and for each attribute whose
\* value dictionary grew one "$" record with the keys it grew by.
C11_Step ==
    (Len(calls') = Len(calls) + 1 /\ calls'[Len(calls')].exc = "none") =>
        LET cell_data == calls'[Len(calls')].cell_data
            new == SubSeq(output', Len(output) + 1, Len(output'))
            names == CellNames(cell_data)
            fresh == Dedupe(Concat([i \in 1..Len(names) |->
                         IF dict_has(attrs, names[i]) THEN <<>> ELSE <<names[i]>>]))
            grown == {i \in 1..Len(values') :
                         Len(KeysHeld(values', values'[i].k))
                             > Len(KeysHeld(values, values'[i].k))}
        IN  /\ (fresh # <<>>) <=> (new[1].kind = "@")
            /\ fresh # <<>> => new[1].obj = <<"@">> \o fresh
            /\ \A i \in grown :
                   \E p \in 1..Len(new) :
                       /\ new[p].kind = "$"
                       /\ new[p].obj[2] = values'[i].k
                       /\ LET held == KeysHeld(values', values'[i].k)
                              before == Len(KeysHeld(values, values'[i].k))
                          IN  SubSeq(new[p].obj, 3, Len(new[p].obj))
                                  = SubSeq(held, before + 1, Len(held))
            /\ \A p \in 1..Len(new) :
                   new[p].kind = "$" =>
                       \E i \in grown : values'[i].k = new[p].obj[2]

\* C11: the output of one writer is one header record {"version": "0.3",
\* "rows": n_rows, "cols": n_cols}, written when the writer is made and
\* before any other record, and then, for each write() that returned, in call
\* order: at most one non-empty "@" record that lists only the names first
\* seen in that call, one non-empty "$" record per attribute that got new
\* values in that call, and exactly one cell record, the last of the call.
C11_Stream == [](C11_Form) /\ [][made => C11_Step]_vars

\* Two calls that returned: the first wrote "@", "$" and its cell record, the
\* second, on a known name, only a "$" record and its cell record.
C11_Witness ==
    /\ Len(calls) = 2
    /\ calls[1].exc = "none" /\ calls[2].exc = "none"
    /\ Len(output) = 6
    /\ [p \in 1..6 |-> output[p].kind]
           = <<"header", "@", "$", "cell", "$", "cell">>

\* The id of a value: 0 for None and the empty string, else the id its key
\* holds in the attribute's value dictionary.
C12_ValueId(attr, val) ==
    IF C9_NoneOrEmpty(val) THEN 0
    ELSE dict_get(dict_get(values, attr), KeyOf(val))

\* The vector of a group: its name if it has one, then per attribute the
\* attribute's id and the codes of its value ids.
C12_Vector(span_data) ==
    (IF Len(span_data) = 3 THEN <<span_data[3]>> ELSE <<>>)
    \o Concat([j \in 1..Len(span_data[2]) |->
           LET attr == span_data[2][j].k
               vals == span_data[2][j].v
           IN  <<dict_get(attrs, attr),
                 base64str([k \in 1..Len(vals) |->
                               PyInt(C12_ValueId(attr, vals[k]))])>>])

\* C12: the cell record of a write(cell) that returned, for a cell whose
\* values are None, numbers or strings, has 2 * len(cell) entries: for the
\* k-th group, the codes of contig_spans of its spans and then its vector
\* (the name if present, then per attribute in mapping order the attribute's
\* id and the codes of its value ids); a group without attributes gives a
\* vector that holds its name only, or nothing.
C12_CellRecord ==
    \A c \in 1..Len(calls) :
        (calls[c].exc = "none" /\ AllowedValues(calls[c].cell_data)) =>
            LET cell_data == calls[c].cell_data
                rec == output[CallEnd(c)].obj
            IN  /\ Len(rec) = 2 * Len(cell_data)
                /\ \A k \in 1..Len(cell_data) :
                       /\ rec[2 * k - 1]
                              = base64str(PyInts(contig_spans(cell_data[k][1])))
                       /\ rec[2 * k] = C12_Vector(cell_data[k])

\* A step that is a call of set_multiprocessing.
C20_Called(is_multiproc) ==
    /\ Len(flag_calls') = Len(flag_calls) + 1
    /\ flag_calls'[Len(flag_calls')].fn = "set_multiprocessing"
    /\ flag_calls'[Len(flag_calls')].is_multiproc = is_multiproc

\* C20 (as the code has it): set_multiprocessing(True) leaves IS_MULTIPROC
\* True, and MULTIPROC_CHUNKSIZE the default 500 when IS_MULTIPROC was False
\* before the call and what it was when IS_MULTIPROC was True already;
\* set_multiprocessing(False) leaves IS_MULTIPROC False and
\* MULTIPROC_CHUNKSIZE None.
C20_SetMultiprocessing ==
    [][/\ C20_Called(TRUE) =>
              /\ IS_MULTIPROC' = TRUE
              /\ MULTIPROC_CHUNKSIZE' = IF IS_MULTIPROC THEN MULTIPROC_CHUNKSIZE
                                        ELSE PyNum(500)
       /\ C20_Called(FALSE) =>
              /\ IS_MULTIPROC' = FALSE
              /\ MULTIPROC_CHUNKSIZE' = PyNone]_vars

\* set_multiprocessing(True), set_multiproc_chunksize(10) and
\* set_multiprocessing(True) again: the chunk size is still 10.
C20_Witness ==
    /\ Len(flag_calls) = 3
    /\ flag_calls[1].fn = "set_multiprocessing" /\ flag_calls[1].is_multiproc
    /\ flag_calls[2].fn = "set_multiproc_chunksize"
    /\ flag_calls[2].multiproc_chunksize = 10
    /\ flag_calls[3].fn = "set_multiprocessing" /\ flag_calls[3].is_multiproc
    /\ IS_MULTIPROC = TRUE
    /\ MULTIPROC_CHUNKSIZE = PyNum(10)

\* C20 (as stated): after set_multiprocessing(True), made in any state the
\* two setters can reach, IS_MULTIPROC is True and MULTIPROC_CHUNKSIZE is the
\* default 500; after set_multiprocessing(False) they are False and None.
C20_DefaultChunksize ==
    (flag_calls # <<>> /\ flag_calls[Len(flag_calls)].fn = "set_multiprocessing") =>
        IF flag_calls[Len(flag_calls)].is_multiproc
        THEN IS_MULTIPROC = TRUE /\ MULTIPROC_CHUNKSIZE = PyNum(500)
        ELSE IS_MULTIPROC = FALSE /\ MULTIPROC_CHUNKSIZE = PyNone

\* The number of bytes of the UTF-8 encoding of text[:n].
RECURSIVE C13_Utf8Bytes(_, _)
C13_Utf8Bytes(text, n) ==
    IF n = 0 THEN 0
    ELSE utf8_len(text[1]) + C13_Utf8Bytes(Tail(text), n - 1)

\* The byte-offset image of a list of character spans of text.
C13_Image(text, spans) ==
    [i \in 1..Len(spans) |->
        <<C13_Utf8Bytes(text, spans[i][1]), C13_Utf8Bytes(text, spans[i][2])>>]

\* C13: for every cell text and every enriched cell whose spans satisfy
\* 0 <= start <= end <= len(text), adjust_span_offsets_from_char_to_byte
\* returns the enriched cell with each span (start, end) replaced by (bytes
\* of text[:start], bytes of text[:end]) in UTF-8, so that (1, 3) in
\* "d\u00e9f" becomes (1, 4); the number and order of the groups and of
\* their spans, and each group's attr_vals and name, are as they were.
C13_CharToByte ==
    (fn = "adjust_span_offsets_from_char_to_byte" /\ returned) =>
        LET before == arg.enriched_cell
            after == result.enriched_cell
        IN  /\ result.exc = "none"
            /\ Len(after.contexts) = Len(before.contexts)
            /\ \A c \in 1..Len(before.contexts) :
                   /\ spans_of(after, c) = C13_Image(arg.cell, spans_of(before, c))
                   /\ after.contexts[c].attr_vals = before.contexts[c].attr_vals
                   /\ after.contexts[c].name = before.contexts[c].name

\* The run has ended.
Ended == pc \in {"done", "failed"}

\* A dataset whose lines all have one cell per column, under distinct names.
WellFormed ==
    /\ NoDup(in_file.fieldnames)
    /\ \A m \in 1..Len(in_file.lines) :
           Len(in_file.lines[m]) = Len(in_file.fieldnames)

\* The text of the cell of line row and column col of the dataset.
CellText(row, col) == in_file.lines[row][col]

\* C14: in enrich_row and enrich_row_with_attribute_data the offsets of every
\* span of every group of a cell are reconciled exactly once before the cell
\* reaches the writer: for every cell text, with multi-byte characters too,
\* the reconciliation does not fail and each span written is the byte-offset
\* image of the character span the enrichment produced; for
\* enrich_row_with_attribute_data that is (0, number of UTF-8 bytes of the
\* cell) in every group.
C14_ReconciledOnce ==
    (enrich_fn \in {"enrich_row", "enrich_row_with_attribute_data"}
        /\ WellFormed) =>
        /\ error # "KeyError"
        /\ \A c \in 1..Len(calls) :
               LET text == CellText(passed[c].row, passed[c].col)
                   cell_data == calls[c].cell_data
               IN  \A g \in 1..Len(cell_data) :
                       cell_data[g][1] =
                           IF enrich_fn = "enrich_row"
                           THEN C13_Image(text, spans_of(atterize_fn(text), g))
                           ELSE <<<<0, C13_Utf8Bytes(text, Len(text))>>>>

\* The run after the output was opened and the writer made.
C15_Opened ==
    [w |-> [attrs |-> <<>>, values |-> <<>>,
            output |-> <<header(count_rows(in_file.lines),
                                PyNum(Len(in_file.fieldnames)))>>,
            calls |-> <<>>, passed |-> <<>>, exc |-> "none"],
     cursor |-> 0, reader |-> 0, pc |-> "rows", error |-> "none"]

\* The output of the single-process run of enrich_by_row.
C15_SingleProcess == row_loop(C15_Opened, in_file, enrich_fn, attr_file).w.output

\* C15: in a multiprocess run of enrich_by_row, whatever the order in which
\* the workers finish, the enriched rows are passed to the writer in the
\* order of the rows of the dataset (every cell of row i before any cell of
\* row i + 1), and the stream the run ends with is the stream of the
\* single-process run.
C15_InputOrder ==
    (IS_MULTIPROC /\ pc # "ready" /\ order(enrich_fn) = "row") =>
        /\ \A c, e \in 1..Len(passed) :
               c < e => \/ passed[c].row < passed[e].row
                        \/ /\ passed[c].row = passed[e].row
                           /\ passed[c].col < passed[e].col
        /\ Ended => output = C15_SingleProcess

\* The first line of the dataset with a cell too few or a cell too many; 0
\* if there is none.
C16_Malformed ==
    LET bad == {m \in 1..Len(in_file.lines) :
                   Len(in_file.lines[m]) \notin {0, Len(in_file.fieldnames)}}
    IN  IF bad = {} THEN 0 ELSE CHOOSE m \in bad : \A n \in bad : m <= n

\* C16: in an enrich run, row-wise and column-wise, a dataset row with a
\* cell too few or a cell too many aborts the run with an error: the row is
\* neither skipped nor written, so no cell record of that row or of a later
\* row is written and the run does not end without an error.
C16_MalformedRowAborts ==
    (pc # "ready" /\ C16_Malformed # 0) =>
        /\ \A c \in 1..Len(passed) : passed[c].row < C16_Malformed
        /\ pc # "done"

\* C17: for every dataset with a header line, one without a data row
\* included, the header record of enrich_by_row and enrich_by_col holds
\* integers: rows is the number of lines after the header line (0 when
\* there is none) and cols is the number of columns of the header line.
C17_HeaderCounts ==
    outfile # "unopened" =>
        /\ output[1].kind = "header"
        /\ output[1].obj.rows = PyNum(Len(in_file.lines))
        /\ output[1].obj.cols = PyNum(Len(in_file.fieldnames))

\* The output is closed once the run has ended and open while it goes on;
\* what is written is the header and then whole groups: each "@" and "$"
\* record is followed by the "$" records and the cell record of its call.
C18_State ==
    /\ Ended => outfile = "closed"
    /\ pc \in {"rows", "cols", "transposed"} => outfile = "open"
    /\ pc = "ready" => outfile = "unopened" /\ output = <<>>
    /\ outfile # "unopened" =>
           /\ Len(output) >= 1
           /\ output[1].kind = "header"
           /\ output[Len(output)].kind \in {"header", "cell"}
           /\ \A p \in 2..Len(output) :
                  /\ output[p].kind \in {"@", "$", "cell"}
                  /\ output[p].kind \in {"@", "$"} =>
                         output[p + 1].kind \in {"$", "cell"}
           /\ Cardinality({p \in 1..Len(output) : output[p].kind = "cell"})
                  = Cardinality({c \in 1..Len(calls) : calls[c].exc = "none"})

\* No step takes a record back.
C18_Kept ==
    /\ Len(output') >= Len(output)
    /\ SubSeq(output', 1, Len(output)) = output
    /\ outfile = "closed" => output' = output

\* C18: every enrich run that opened the output ends with it closed, when it
\* succeeds and when it fails at whichever row; after a failure the records
\* written are not taken back and are whole: the header and the complete
\* groups of the cells written before the failure, no "@" or "$" record
\* without its cell record.
C18_ClosedAndWhole == [](C18_State) /\ [][C18_Kept]_vars

\* A run that failed in write() on the second cell of its first row, after
\* the records of the first cell: the output is closed and holds them.
C18_Witness ==
    /\ pc = "failed"
    /\ outfile = "closed"
    /\ Len(calls) = 2
    /\ calls[1].exc = "none" /\ calls[2].exc = "TypeError"
    /\ passed[1].row = passed[2].row
    /\ Len(output) > 1
    /\ output[Len(output)].kind = "cell"

\* C19: in a column-wise run the results per column are transposed before
\* they are written: the cell of (row i, column j), counted from 0, is the
\* (i * cols + j)-th cell passed to the writer, the columns in header order,
\* and the run ends with the stream of the row-wise run whose enrichment
\* function gives the same enriched cell for every (row, column).
C19_Transposed ==
    (order(enrich_fn) = "col" /\ pc # "ready" /\ WellFormed) =>
        /\ \A c \in 1..Len(passed) :
               /\ passed[c].row = ((c - 1) \div Len(in_file.fieldnames)) + 1
               /\ passed[c].col = ((c - 1) % Len(in_file.fieldnames)) + 1
        /\ Ended => output = row_loop(C15_Opened, in_file, "enrich_row", NoFile).w.output

\* The step is a call of set_multiproc_chunksize(n).
C21_Called(n) ==
    /\ Len(flag_calls') = Len(flag_calls) + 1
    /\ flag_calls'[Len(flag_calls')].fn = "set_multiproc_chunksize"
    /\ flag_calls'[Len(flag_calls')].multiproc_chunksize = n

\* C21: set_multiproc_chunksize(n) sets MULTIPROC_CHUNKSIZE to n exactly when
\* n >= 1 and multiprocessing is on; when multiprocessing is off and n >= 1
\* the call changes nothing and the chunk size stays None; when n < 1 it
\* raises AssertionError and leaves IS_MULTIPROC and MULTIPROC_CHUNKSIZE as
\* they were.
C21_SetMultiprocChunksize ==
    [][\A n \in ChunkSizes :
          C21_Called(n) =>
              /\ IS_MULTIPROC' = IS_MULTIPROC
              /\ (n >= 1 /\ IS_MULTIPROC) =>
                     /\ MULTIPROC_CHUNKSIZE' = PyNum(n)
                     /\ flag_calls'[Len(flag_calls')].exc = "none"
              /\ (n >= 1 /\ ~IS_MULTIPROC) =>
                     /\ MULTIPROC_CHUNKSIZE' = PyNone
                     /\ MULTIPROC_CHUNKSIZE' = MULTIPROC_CHUNKSIZE
                     /\ flag_calls'[Len(flag_calls')].exc = "none"
              /\ n < 1 =>
                     /\ MULTIPROC_CHUNKSIZE' = MULTIPROC_CHUNKSIZE
                     /\ flag_calls'[Len(flag_calls')].exc = "AssertionError"]_vars

\* set_multiprocessing(True), set_multiproc_chunksize(10) and
\* set_multiproc_chunksize(0), which raised: the chunk size is 10.
C21_Witness ==
    /\ Len(flag_calls) = 3
    /\ flag_calls[1].fn = "set_multiprocessing" /\ flag_calls[1].is_multiproc
    /\ flag_calls[2].fn = "set_multiproc_chunksize"
    /\ flag_calls[2].multiproc_chunksize = 10 /\ flag_calls[2].exc = "none"
    /\ flag_calls[3].fn = "set_multiproc_chunksize"
    /\ flag_calls[3].multiproc_chunksize = 0
    /\ flag_calls[3].exc = "AssertionError"
    /\ IS_MULTIPROC = TRUE
    /\ MULTIPROC_CHUNKSIZE = PyNum(10)

\* C27: after any sequence of set_multiprocessing and set_multiproc_chunksize
\* calls, those that raise included, MULTIPROC_CHUNKSIZE is None exactly when
\* IS_MULTIPROC is False, and an integer >= 1 when IS_MULTIPROC is True.
C27_ChunksizeIffMultiproc ==
    /\ (MULTIPROC_CHUNKSIZE = PyNone) <=> (IS_MULTIPROC = FALSE)
    /\ IS_MULTIPROC = TRUE =>
           /\ MULTIPROC_CHUNKSIZE.t = "num"
           /\ MULTIPROC_CHUNKSIZE.n >= 1

\* set_multiprocessing(True), set_multiproc_chunksize(10) and
\* set_multiprocessing(False): the chunk size is None again.
C27_Witness ==
    /\ Len(flag_calls) = 3
    /\ flag_calls[1].fn = "set_multiprocessing" /\ flag_calls[1].is_multiproc
    /\ flag_calls[2].fn = "set_multiproc_chunksize"
    /\ flag_calls[2].multiproc_chunksize = 10
    /\ flag_calls[3].fn = "set_multiprocessing"
    /\ ~flag_calls[3].is_multiproc
    /\ IS_MULTIPROC = FALSE /\ MULTIPROC_CHUNKSIZE = PyNone

\* The longest time from one poll to the next: the longest request and the
\* longest sleep.
C22_PollTime ==
    (CHOOSE t \in GetTicks : \A u \in GetTicks : u <= t)
        + (CHOOSE t \in SleepTicks : \A u \in SleepTicks : u <= t)

\* C22: await_summary returns None when halt_fn holds for the polled
\* summary and the summary when pred holds for it, and goes on only when
\* neither holds; when the polled summary has stayed the same for
\* unchanged_timeout (and the time of one poll, which it takes to see that it
\* is the same) the loop is left and the time-out is raised: it does not
\* poll again.
C22_AwaitSummary ==
    proc = "await_summary" =>
        /\ cpc = "returned" =>
               /\ locals.summary[1].halt \/ locals.summary[1].pred
               /\ yielded = <<IF locals.summary[1].halt THEN <<>>
                              ELSE locals.summary>>
        /\ (cpc \in {"sleep", "test"} /\ locals.summary # <<>>) =>
               ~locals.summary[1].halt /\ ~locals.summary[1].pred
        /\ (cpc = "get" /\ locals.same >= 2) =>
               clock - locals.stale_from < locals.unchanged_timeout + C22_PollTime

\* The candidates received in the n first requests.
RECURSIVE C23_Received(_)
C23_Received(n) ==
    IF n = 0 THEN 0 ELSE C23_Received(n - 1) + requests[n].received

\* The first request reads n_candidates and the others are dump requests,
\* each with the number of candidates received before it as its offset; what
\* was yielded is the candidates in order from the first on, all those of the
\* pages received when the next page is asked for, and all of them when the
\* generator has ended.
C23_State ==
    /\ cpc # "created" => requests # <<>> /\ requests[1].verb = "nop"
    /\ \A k \in 2..Len(requests) :
           /\ requests[k].verb = "dump"
           /\ requests[k].offset = C23_Received(k - 1)
           /\ requests[k].offset < Len(server.candidates)
    /\ Len(yielded) <= Len(server.candidates)
    /\ yielded = SubSeq(server.candidates, 1, Len(yielded))
    /\ cpc = "while" => Len(yielded) = C23_Received(Len(requests))
    /\ cpc = "done" =>
           /\ yielded = server.candidates
           /\ locals.offset = locals.n_cands
           /\ locals.n_cands = Len(server.candidates)

\* C23: dump() first reads n_candidates; each dump request carries as offset
\* the number of candidates received in the earlier pages; the candidates
\* are yielded in page order, none repeated or skipped; and the generator,
\* pulled by its caller, ends once the offset has reached n_candidates.
C23_Dump == [](C23_State) /\ <>(cpc = "done")

\* The generator has ended after three pages, of two, one and one candidate.
C23_Witness ==
    /\ proc = "dump" /\ cpc = "done"
    /\ Len(requests) = 4
    /\ requests[2].received = 2 /\ requests[3].received = 1
    /\ requests[4].offset = 3
    /\ Len(yielded) = 4

\* The fields of the candidates of the n first pages, in order.
RECURSIVE C24_Fields(_)
C24_Fields(n) ==
    IF n = 0 THEN <<>>
    ELSE C24_Fields(n - 1)
             \o [k \in 1..Len(server.pages[n].candidates) |->
                    server.pages[n].candidates[k].fields]

\* C24: query_all(q, max_pages) queries the pages 0, 1, 2, ... in order and
\* yields the fields of every candidate of each page in order; it stops
\* after the first page with query_end set or, when max_pages > 0, after
\* max_pages pages, whichever comes first, and not before; with
\* max_pages = 0 only query_end stops it.
C24_QueryAll ==
    proc = "query_all" =>
        LET n == Len(requests)
            max_pages == locals.max_pages
        IN  /\ \A k \in 1..n :
                   requests[k] = [verb |-> "query", query |-> locals.q,
                                  page |-> k - 1]
            /\ cpc \in {"while", "done"} => yielded = C24_Fields(n)
            /\ cpc \in {"for", "yield"} =>
                   yielded = SubSeq(C24_Fields(n), 1,
                                    Len(C24_Fields(n - 1)) + locals.j)
            /\ cpc = "done" =>
                   /\ \/ server.pages[n].query_end
                      \/ max_pages > 0 /\ n = max_pages
                   /\ \A k \in 1..(n - 1) : ~server.pages[k].query_end
                   /\ max_pages > 0 => n <= max_pages
            /\ cpc = "while" =>
                   /\ \A k \in 1..n : ~server.pages[k].query_end
                   /\ max_pages > 0 => n < max_pages

\* query_all(q, 2) has ended after two pages, neither with query_end set,
\* and has yielded the candidates of both.
C24_Witness ==
    /\ proc = "query_all" /\ cpc = "done"
    /\ locals.max_pages = 2
    /\ Len(requests) = 2
    /\ ~server.pages[2].query_end
    /\ Len(yielded) = 2

\* The ingestion requests sent.
C25_Ingestions ==
    {k \in 1..Len(requests) : requests[k].verb \in {"attributes", "PUT attributes"}}

\* C25: main() sends the attributes to the application (load_attributes or
\* upload_attributes) only if the project id and the dataset id it read
\* after the enrichment equal those it read before it; if either differs it
\* exits with status 1 and has sent no ingestion request.
C25_IngestOnlyIfUnchanged ==
    proc = "main" =>
        /\ (C25_Ingestions # {} \/ cpc = "ingest") =>
               /\ locals.current_project_id = locals.project_id
               /\ locals.current_dataset_id = locals.dataset_id
               /\ locals.project_id # "" /\ locals.dataset_id # ""
        /\ (/\ cpc \notin {"start", "enrich", "check"}
            /\ locals.current_project_id # ""
            /\ \/ locals.current_project_id # locals.project_id
               \/ /\ locals.current_dataset_id # ""
                  /\ locals.current_dataset_id # locals.dataset_id) =>
               /\ cpc = "exited"
               /\ locals.status = 1
               /\ C25_Ingestions = {}

\* A run in which the dataset opened in the application changed during the
\* enrichment: main() has exited without an ingestion request.
C25_Witness ==
    /\ proc = "main"
    /\ cpc = "exited"
    /\ locals.current_project_id = locals.project_id
    /\ locals.current_dataset_id # ""
    /\ locals.current_dataset_id # locals.dataset_id
    /\ C25_Ingestions = {}

\* C29: Client.query(q, page) of client2 returns only a summary that reports
\* query_completed and whose query is the q asked for; a polled summary of
\* any other kind is not returned, the polling goes on, and it ends with
\* TimeoutError.
C29_ClientQuery ==
    proc = "Client.query" =>
        /\ cpc = "returned" =>
               /\ yielded = locals.summary
               /\ yielded[1].query_completed
               /\ yielded[1].query = locals.query
        /\ (cpc \in {"sleep", "test"} /\ locals.summary # <<>>) =>
               ~(locals.summary[1].query_completed
                 /\ locals.summary[1].query = locals.query)
        /\ cpc = "raised" => locals.error = "TimeoutError"

\* The step is a write() that raised on a value of a type not allowed or on
\* a number of values that is not the number of spans.
C26_Raised ==
    /\ Len(calls') = Len(calls) + 1
    /\ calls'[Len(calls')].exc # "none"
    /\ C10_Faulty(calls'[Len(calls')].cell_data)

\* C26: a write() that raises on a value of a type not allowed or on a
\* span/value length mismatch leaves the attribute and value dictionaries of
\* the writer as they were before the call, so that after such calls and
\* calls that did not raise every id used in a cell record has been
\* announced by an earlier "@" or "$" record.
C26_RaisingWriteKeepsDictionaries ==
    /\ []((\A c \in 1..Len(calls) :
              calls[c].exc # "none" => C10_Faulty(calls[c].cell_data))
          => C7_Announced)
    /\ [][C26_Raised => (attrs' = attrs /\ values' = values)]_vars

\* The count a header record holds: 0 for None.
C28_Count(val) == IF val.t = "num" THEN val.n ELSE 0

\* C28: when enrich_by_row with enrich_row, or enrich_by_col, has ended
\* without an error, the output holds rows * cols cell records, rows and cols
\* those of the header record it wrote; for every dataset, those with blank
\* lines or repeated column names included.
C28_CellRecords ==
    (pc = "done" /\ enrich_fn \in {"enrich_row", "enrich_col"}) =>
        Cardinality({p \in 1..Len(output) : output[p].kind = "cell"})
            = C28_Count(output[1].obj.rows) * C28_Count(output[1].obj.cols)

\* The number among the data rows of the dataset of the row of line m.
C30_DataRow(m) == Cardinality({n \in 1..m : in_file.lines[n] # <<>>})

\* C30: in a run with enrich_row_with_attribute_data, single-process or
\* multiprocess, the cells of the i-th data row of the dataset carry the
\* values of the i-th data row of the attributes file, for every i: a run
\* that ends without an error on a dataset with one cell per column and an
\* attributes file with a row per data row has written every row.
C30_RowAlignment ==
    enrich_fn = "enrich_row_with_attribute_data" =>
        /\ \A c \in 1..Len(calls) :
               LET i == C30_DataRow(passed[c].row)
               IN  /\ i <= Len(attr_file.lines)
                   /\ calls[c].cell_data[1][2] =
                          <<Item(attr_file.fieldnames[1],
                                 <<PyStr(attr_file.lines[i][1])>>)>>
        /\ (/\ pc = "done"
            /\ WellFormed
            /\ Len(attr_file.lines) >= Len(in_file.lines)) =>
               Len(passed) = Len(in_file.lines) * Len(in_file.fieldnames)

====
